---- MODULE Spec2Model ----
(***************************************************************************)
(* Witchat connection/room coordination server (the Socket.io server with  *)
(* rooms, rate limits, moderation, crosstalk) as a state machine.          *)
(*                                                                         *)
(* Time is Date.now() in milliseconds.  Strings of the program are TLA+    *)
(* strings; a character of a string t is SubSeq(t, i, i).  JavaScript's    *)
(* undefined and null of a string-valued field are both written Undef.     *)
(* A JavaScript Map is a function whose DOMAIN is the set of its keys.     *)
(***************************************************************************)
EXTENDS Integers, Sequences, FiniteSets, TLC

(***************************************************************************)
(* Program constants                                                       *)
(***************************************************************************)
MAX_MESSAGES == 3
MAX_SENTIMENT_HISTORY == 5
MAX_ROOMS == 50
MAX_GHOSTS == 10
MAX_TEXT == 500
GHOST_DURATION_MS == 180000
AWAY_TIMEOUT_MS == 120000
TYPING_STOP_MS == 5000
DM_EXPIRY_MS == 30000
RESONANCE_DECAY_MS == 300000
\* the delay of the forced exit that gracefulShutdown schedules
FORCE_EXIT_MS == 10000
MOOD_DECAY_MS == 180000
MOOD_DECAY_INTERVAL_MS == 60000
SILENCE_THRESHOLD_MS == 30000
SILENCE_INTERVAL_MS == 5000
RATE_MESSAGE_MAX == 15
RATE_MESSAGE_WINDOW == 10000
RATE_TYPING_MAX == 10
RATE_TYPING_WINDOW == 1000
RATE_JOIN_MAX == 5
RATE_JOIN_WINDOW == 10000
RATE_CREATE_MAX == 3
RATE_CREATE_WINDOW == 60000
RATE_TOTAL_MAX == 200
RATE_TOTAL_WINDOW == 60000

DEFAULT_ROOM_ID == "main"
DEFAULT_ROOM_TITLE == "the well"
DEFAULT_COLOR == "#7b5278"
MOOD_NEUTRAL == "neutral"
MOOD_CALM == "calm"
MOOD_INTENSE == "intense"
SIGILS == <<"spiral", "eye", "triangle", "cross", "diamond">>
Undef == "undefined"

(***************************************************************************)
(* Strings, character by character                                         *)
(***************************************************************************)
Range(s) == {s[i] : i \in DOMAIN s}
Min(a, b) == IF a < b THEN a ELSE b
CharAt(t, i) == SubSeq(t, i, i)
Chars(t) == {CharAt(t, i) : i \in 1..Len(t)}
LOWER == "abcdefghijklmnopqrstuvwxyz"
UPPER == "ABCDEFGHIJKLMNOPQRSTUVWXYZ"
DIGITS == "0123456789"
LowerChars == Chars(LOWER)
UpperChars == Chars(UPPER)
DigitChars == Chars(DIGITS)
HexChars == DigitChars \cup Chars("abcdefABCDEF")
SlugChars == LowerChars \cup DigitChars \cup {"-"}
LowerOf == [ch \in UpperChars |-> CharAt(LOWER, CHOOSE i \in 1..26 : CharAt(UPPER, i) = ch)]
IsSpace(ch) == ch \in {" ", "\t", "\n", "\r"}
IsUpper(ch) == ch \in UpperChars
IsLetter(ch) == ch \in LowerChars \/ ch \in UpperChars
IsAlnum(ch) == IsLetter(ch) \/ ch \in DigitChars
\* \w of a JavaScript regular expression
IsWordChar(ch) == IsAlnum(ch) \/ ch = "_"
ToLowerChar(ch) == IF IsUpper(ch) THEN LowerOf[ch] ELSE ch

\* String.prototype.toLowerCase, character by character (halving keeps the evaluation
\* shallow on texts of MAX_TEXT characters)
RECURSIVE ToLowerCase(_)
ToLowerCase(t) ==
    IF t = "" THEN ""
    ELSE IF Len(t) = 1 THEN ToLowerChar(CharAt(t, 1))
    ELSE ToLowerCase(SubSeq(t, 1, Len(t) \div 2))
             \o ToLowerCase(SubSeq(t, Len(t) \div 2 + 1, Len(t)))

\* String.prototype.trim
RECURSIVE TrimLeft(_)
TrimLeft(t) ==
    IF t # "" /\ IsSpace(CharAt(t, 1)) THEN TrimLeft(SubSeq(t, 2, Len(t))) ELSE t
RECURSIVE TrimRight(_)
TrimRight(t) ==
    IF t # "" /\ IsSpace(CharAt(t, Len(t))) THEN TrimRight(SubSeq(t, 1, Len(t) - 1)) ELSE t
Trim(t) == TrimRight(TrimLeft(t))
\* String.prototype.slice(0, n)
Slice0(t, n) == SubSeq(t, 1, Min(n, Len(t)))
\* t has the string p at (1-based) position i
HasAt(t, i, p) == i >= 1 /\ i + Len(p) - 1 <= Len(t) /\ SubSeq(t, i, i + Len(p) - 1) = p
\* the last position of the run of non-whitespace characters that holds position i
RunEnd(t, i) ==
    CHOOSE j \in i..Len(t) :
        /\ \A k \in i..j : ~IsSpace(CharAt(t, k))
        /\ (j = Len(t) \/ IsSpace(CharAt(t, j + 1)))

(***************************************************************************)
(* lib/moderation.js                                                       *)
(***************************************************************************)
TLDS == {"com", "org", "net", "io", "co", "gg", "me", "tv", "xyz", "app", "dev", "info",
         "biz", "us", "uk", "ca", "au", "de", "fr", "jp", "ru", "ch", "nl", "be", "it",
         "es", "pt", "pl", "se", "no", "fi", "dk", "at", "nz", "ie", "in", "br", "mx",
         "ar", "cl", "za", "kr", "cn", "tw", "hk", "sg", "my", "ph", "th", "vn", "id"}

\* URL_REGEX (flags gi) matches at position i of a text, l being the text in lower
\* case: one of its three alternatives
\*   https?:\/\/[^\s]+   www\.[^\s]+   [a-zA-Z0-9-]+\.(com|org|...)[^\s]*
UrlMatchesAt(l, i) ==
    LET nonSpaceAt(k) == k <= Len(l) /\ ~IsSpace(CharAt(l, k))
    IN  \/ HasAt(l, i, "http://") /\ nonSpaceAt(i + 7)
        \/ HasAt(l, i, "https://") /\ nonSpaceAt(i + 8)
        \/ HasAt(l, i, "www.") /\ nonSpaceAt(i + 4)
        \/ /\ IsAlnum(CharAt(l, i)) \/ CharAt(l, i) = "-"
           /\ \E j \in (i + 1)..Len(l) :
                 /\ CharAt(l, j) = "."
                 /\ \A k \in i..(j - 1) : IsAlnum(CharAt(l, k)) \/ CharAt(l, k) = "-"
                 /\ \E tld \in TLDS : HasAt(l, j + 1, tld)

\* RegExp.prototype.test of a global (g) regular expression: the search starts at
\* lastIndex and leaves lastIndex at the end of the match, or at 0 when none is found.
\* Every alternative of URL_REGEX ends in a greedy [^\s] run, so a match ends where the
\* run of non-whitespace around it ends.
UrlTest(t, lastIndex) ==
    LET l == ToLowerCase(t)
        starts == {i \in (lastIndex + 1)..Len(t) : UrlMatchesAt(l, i)}
    IN  IF lastIndex > Len(t) \/ starts = {}
        THEN [found |-> FALSE, lastIndex |-> 0]
        ELSE [found |-> TRUE,
              lastIndex |-> RunEnd(t, CHOOSE i \in starts : \A k \in starts : i <= k)]

\* containsUrl(text): URL_REGEX.test(text) on the module's one URL_REGEX object
containsUrl(t, lastIndex) == UrlTest(t, lastIndex)

BIGOTRY_TERMS ==
    <<"nigger", "nigga", "n1gger", "n1gga", "nigg3r", "nigg4",
      "chink", "ch1nk",
      "spic", "sp1c", "spick",
      "wetback",
      "kike", "k1ke",
      "gook",
      "raghead", "towelhead",
      "beaner",
      "coon",
      "darkie",
      "jigaboo",
      "porch monkey",
      "jungle bunny",
      "sand nigger",
      "faggot", "fag", "f4ggot", "f4g", "fagg0t",
      "dyke", "d1ke", "dyk3",
      "tranny", "tr4nny",
      "shemale", "she-male",
      "retard", "retarded", "r3tard",
      "tard">>
BIGOTRY_SUFFIXES == <<"s", "ed", "ing", "er", "ers", "">>

\* \b before position i of t (between the characters i-1 and i)
WordBoundary(t, i) ==
    LET w(k) == k >= 1 /\ k <= Len(t) /\ IsWordChar(CharAt(t, k))
    IN  w(i - 1) # w(i)

\* the length of the match of BIGOTRY_REGEX at position i of a text, l being the text
\* in lower case, 0 when it has none:
\*   \b(term1|term2|...)(s|ed|ing|er|ers)?\b   with flags gi
BigotryMatchLen(l, i) ==
    LET ok(a, b) ==
            /\ HasAt(l, i, BIGOTRY_TERMS[a] \o BIGOTRY_SUFFIXES[b])
            /\ WordBoundary(l, i + Len(BIGOTRY_TERMS[a]) + Len(BIGOTRY_SUFFIXES[b]))
        hits == {a \in DOMAIN BIGOTRY_TERMS : \E b \in DOMAIN BIGOTRY_SUFFIXES : ok(a, b)}
    IN  IF ~WordBoundary(l, i) \/ hits = {} THEN 0
        ELSE LET a == CHOOSE x \in hits : \A y \in hits : x <= y
                 bs == {b \in DOMAIN BIGOTRY_SUFFIXES : ok(a, b)}
                 b == CHOOSE x \in bs : \A y \in bs : x <= y
             IN  Len(BIGOTRY_TERMS[a]) + Len(BIGOTRY_SUFFIXES[b])

\* detectBigotry(text).found: text.match(BIGOTRY_REGEX) finds a match (match resets
\* lastIndex, so it does not depend on earlier calls)
detectBigotry(t) ==
    LET l == ToLowerCase(t)
    IN  \E i \in 1..Len(t) : BigotryMatchLen(l, i) > 0

RECURSIVE Stars(_)
Stars(n) == IF n <= 0 THEN "" ELSE "*" \o Stars(n - 1)
\* maskSlur(word): the first letter, then asterisks
maskSlur(word) == IF Len(word) <= 1 THEN "*" ELSE CharAt(word, 1) \o Stars(Len(word) - 1)

\* maskBigotry(text): text.replace(BIGOTRY_REGEX, maskSlur), left to right from position
\* i, l being the text in lower case: the text up to the next match, the match masked,
\* and the rest
RECURSIVE MaskFrom(_, _, _)
MaskFrom(t, l, i) ==
    LET hits == {j \in i..Len(t) : BigotryMatchLen(l, j) > 0}
    IN  IF i > Len(t) THEN ""
        ELSE IF hits = {} THEN SubSeq(t, i, Len(t))
        ELSE LET j == CHOOSE x \in hits : \A y \in hits : x <= y
             IN  SubSeq(t, i, j - 1)
                     \o maskSlur(SubSeq(t, j, j + BigotryMatchLen(l, j) - 1))
                     \o MaskFrom(t, l, j + BigotryMatchLen(l, j))
maskBigotry(t) == MaskFrom(t, ToLowerCase(t), 1)

\* moderate(text), with the lastIndex of URL_REGEX before the call; lastIndex is its
\* value after the call
moderate(t, lastIndex) ==
    LET u == containsUrl(t, lastIndex)
    IN  IF u.found
        THEN [allowed |-> FALSE, reason |-> "no-links", maskedText |-> Undef,
              isBigotry |-> FALSE, lastIndex |-> u.lastIndex]
        ELSE IF detectBigotry(t)
        THEN [allowed |-> TRUE, reason |-> "bigotry", maskedText |-> maskBigotry(t),
              isBigotry |-> TRUE, lastIndex |-> u.lastIndex]
        ELSE [allowed |-> TRUE, reason |-> Undef, maskedText |-> Undef,
              isBigotry |-> FALSE, lastIndex |-> u.lastIndex]

(***************************************************************************)
(* Bounds of the model                                                     *)
(***************************************************************************)
\* socket ids 1..MaxConns: each names one connection, used once
MaxConns == 2
\* at most MaxMsgs messages are given an id
MaxMsgs == 4
\* a connection joins at most MaxJoins times
MaxJoins == 1

\* a room remembers at most MaxLeaves departures before switching stops
MaxLeaves == 1
\* messages sent in SpecRooms
MaxRoomMsgs == 1
\* the connections send at most MaxModMsgs messages in SpecMod
MaxModMsgs == 2
\* SpecRate starts when the first connection is ScriptSlack events short of the total cap
ScriptSlack == 2
\* the events the rate limiter lets pass in SpecRate after its start
MaxExtra == 3
\* the seconds that pass in SpecRate after its start
MaxTicks == 2
\* the time that passes in SpecDM while a DM pair is active, in steps of DmTickMs
MaxDmTicks == 3

\* the silence interval fires MaxSweeps times in SpecSilence
MaxSweeps == 14
\* the messages and typing events that the rate limiter lets pass in SpecSilence
MaxQuietBreaks == 1
\* the half windows of the create-room limit that pass while clients create rooms
MaxCreateTicks == 2
\* the create-room events that pass their rate check once the registry is almost full
MaxCreates == 4
\* the times the room den is created by a client
MaxDens == 1
\* the typing events that pass their rate check in SpecTyping
MaxTypings == 2
\* the steps of time in SpecPurge
MaxPurgeTicks == 2
\* the copy events in SpecShutdown
MaxCopies == 1
\* the dm-typing events of a connection that pass their rate check in SpecResolve
MaxDmTypings == 1
\* the steps of TypingTickMs that time takes in SpecTyping
MaxTypingTicks == 3

\* the time that passes in SpecAway, in steps of AwayTickMs
MaxAwayTicks == 4

\* the connections send at most MaxTextMsgs messages in SpecText
MaxTextMsgs == 1

\* messages sent in SpecDecay
MaxMoodMsgs == 2
\* the decay interval fires MaxDecays times in SpecDecay
MaxDecays == 8

Conns == 1..MaxConns
IPs == {"ip1", "ip2"}
\* the addresses connection c may come from: the first connection's address is ip1
IPsOf(c) == IF c = 1 THEN {"ip1"} ELSE IPs

\* the texts clients send as messages
PlainTexts == {"hi", "yo"}
LinkTexts == {"http://x.com"}
SlurTexts == {"you tard"}
\* texts with a sentiment score or an energy penalty
MoodTexts == {"good", "HI", "hi!!"}
KnownTexts == PlainTexts \cup LinkTexts \cup SlurTexts \cup MoodTexts
\* moderate on the texts clients send, computed once
ModTable == [t \in KnownTexts |-> [i \in 0..Len(t) |-> moderate(t, i)]]
Moderated(t, lastIndex) ==
    IF t \in KnownTexts /\ lastIndex <= Len(t) THEN ModTable[t][lastIndex]
    ELSE moderate(t, lastIndex)

(***************************************************************************)
(* State                                                                   *)
(***************************************************************************)
VARIABLES
    now,             \* Date.now()
    sockets,         \* socket id -> the socket object: state, handshake ip, user* fields
    adapter,         \* socket id -> the Socket.io rooms the socket has joined
    socketIdToIP, socketFocused, socketAway, socketToRoom,
    rooms,           \* roomId -> room
    bannedIPs,
    rateLimits,      \* socket id -> bucket
    typingTimers,    \* socket id -> the handle of its pending typing-stop timeout
    typingStops,     \* the typing-stop callbacks that setTimeout holds
    awayTimers,      \* socket id -> pending away timeout
    activeDMs,       \* dmKey -> DM session
    dmCleanupTimers, \* dmKey -> pending expiry timeout
    messageResonance, \* messageId -> copy count
    resonanceTimers, \* the cleanup timeouts of addResonance: [messageId, due]
    moodDecayTimer,  \* TRUE while the mood decay interval is set
    silenceTimer,    \* TRUE while the silence interval is set
    isShuttingDown,
    exitTimer,       \* when the forced exit of gracefulShutdown is due; 0: not set
    exited,          \* process.exit has run
    urlLastIndex,    \* URL_REGEX.lastIndex
    msgSeq,          \* number of message ids handed out
    out,             \* what the last step emitted: <<[to, ev, data]>>, to a set of sockets
    last,            \* the event the last step handled
    passed           \* history: socket id -> category -> the times of its events that the
                     \* rate limiter let pass

vars == <<now, sockets, adapter, socketIdToIP, socketFocused, socketAway, socketToRoom,
          rooms, bannedIPs, rateLimits, typingTimers, typingStops, awayTimers, activeDMs,
          dmCleanupTimers, messageResonance, resonanceTimers, moodDecayTimer, silenceTimer,
          isShuttingDown, exitTimer, exited, urlLastIndex, msgSeq, out, last, passed>>

\* the state as one value, so that a handler is a function from state to state
Cur ==
    [now |-> now, sockets |-> sockets, adapter |-> adapter, socketIdToIP |-> socketIdToIP,
     socketFocused |-> socketFocused, socketAway |-> socketAway,
     socketToRoom |-> socketToRoom, rooms |-> rooms, bannedIPs |-> bannedIPs,
     rateLimits |-> rateLimits, typingTimers |-> typingTimers,
     typingStops |-> typingStops, awayTimers |-> awayTimers,
     activeDMs |-> activeDMs, dmCleanupTimers |-> dmCleanupTimers,
     messageResonance |-> messageResonance, resonanceTimers |-> resonanceTimers,
     moodDecayTimer |-> moodDecayTimer, silenceTimer |-> silenceTimer,
     isShuttingDown |-> isShuttingDown, exitTimer |-> exitTimer, exited |-> exited,
     urlLastIndex |-> urlLastIndex, msgSeq |-> msgSeq, out |-> out, last |-> last,
     passed |-> passed]

Commit(S) ==
    /\ now' = S.now /\ sockets' = S.sockets /\ adapter' = S.adapter
    /\ socketIdToIP' = S.socketIdToIP /\ socketFocused' = S.socketFocused
    /\ socketAway' = S.socketAway /\ socketToRoom' = S.socketToRoom
    /\ rooms' = S.rooms /\ bannedIPs' = S.bannedIPs /\ rateLimits' = S.rateLimits
    /\ typingTimers' = S.typingTimers /\ typingStops' = S.typingStops
    /\ awayTimers' = S.awayTimers
    /\ activeDMs' = S.activeDMs /\ dmCleanupTimers' = S.dmCleanupTimers
    /\ messageResonance' = S.messageResonance /\ resonanceTimers' = S.resonanceTimers
    /\ moodDecayTimer' = S.moodDecayTimer /\ silenceTimer' = S.silenceTimer
    /\ isShuttingDown' = S.isShuttingDown /\ exitTimer' = S.exitTimer
    /\ exited' = S.exited
    /\ urlLastIndex' = S.urlLastIndex /\ msgSeq' = S.msgSeq
    /\ out' = S.out /\ last' = S.last /\ passed' = S.passed

\* Map.set, Map.delete, Map.get(k) || d
MapSet(m, k, v) == [y \in DOMAIN m \cup {k} |-> IF y = k THEN v ELSE m[y]]
MapDel(m, k) == [y \in DOMAIN m \ {k} |-> m[y]]
MapGet(m, k, d) == IF k \in DOMAIN m THEN m[k] ELSE d
EmptyMap == [y \in {} |-> 0]

NewSocket == [state |-> "none", ip |-> Undef, userColor |-> Undef, userHandle |-> Undef,
              userTag |-> Undef, userSigil |-> Undef]

\* the sockets of io.sockets.sockets, and those in Socket.io room r
OpenSockets(S) == {c \in Conns : S.sockets[c].state = "open"}
Members(S, r) == {c \in Conns : r \in S.adapter[c]}

\* a handler starts: nothing emitted yet, no rate check made
Begin(S, ev, c, text) ==
    [S EXCEPT !.out = <<>>, !.last = [ev |-> ev, conn |-> c, text |-> text, rate |-> "none"]]
\* emit ev to the sockets to
EmitTo(S, to, ev, data) ==
    [S EXCEPT !.out = Append(@, [to |-> to, ev |-> ev, data |-> data])]
\* socket.emit, io.to(room).emit, socket.to(room).emit, io.emit
SocketEmit(S, c, ev, data) == EmitTo(S, {c} \cap OpenSockets(S), ev, data)
IoToRoomEmit(S, r, ev, data) == EmitTo(S, Members(S, r), ev, data)
SocketToRoomEmit(S, c, r, ev, data) == EmitTo(S, Members(S, r) \ {c}, ev, data)
IoEmit(S, ev, data) == EmitTo(S, OpenSockets(S), ev, data)

(***************************************************************************)
(* Rate limiting                                                           *)
(***************************************************************************)
RATE_LIMITS ==
    [message |-> [max |-> RATE_MESSAGE_MAX, windowMs |-> RATE_MESSAGE_WINDOW],
     typing |-> [max |-> RATE_TYPING_MAX, windowMs |-> RATE_TYPING_WINDOW],
     join |-> [max |-> RATE_JOIN_MAX, windowMs |-> RATE_JOIN_WINDOW],
     createRoom |-> [max |-> RATE_CREATE_MAX, windowMs |-> RATE_CREATE_WINDOW],
     total |-> [max |-> RATE_TOTAL_MAX, windowMs |-> RATE_TOTAL_WINDOW]]
EmptyBucket == [message |-> <<>>, typing |-> <<>>, join |-> <<>>, createRoom |-> <<>>,
                total |-> <<>>]
getRateLimitBucket(limits, c) == MapGet(limits, c, EmptyBucket)

\* bucket[eventType].filter(ts => t - ts < windowMs)
PurgeOld(stamps, t, windowMs) == SelectSeq(stamps, LAMBDA ts : t - ts < windowMs)

\* a rate check that tests the total window only, never the cap of the category
checkTotalOnly(limits, c, eventType, t) ==
    LET b0 == getRateLimitBucket(limits, c)
        b1 == [b0 EXCEPT ![eventType] = PurgeOld(@, t, RATE_LIMITS[eventType].windowMs),
                         !.total = PurgeOld(@, t, RATE_LIMITS.total.windowMs)]
    IN  IF Len(b1.total) >= RATE_LIMITS.total.max
        THEN [allowed |-> FALSE, reason |-> "abuse", bucket |-> b1]
        ELSE [allowed |-> TRUE, reason |-> Undef,
              bucket |-> [b1 EXCEPT ![eventType] = Append(@, t), !.total = Append(@, t)]]

\* a rate check that tests the cap of the category before the total window
checkCategoryFirst(limits, c, eventType, t) ==
    LET b0 == getRateLimitBucket(limits, c)
        b1 == [b0 EXCEPT ![eventType] = PurgeOld(@, t, RATE_LIMITS[eventType].windowMs),
                         !.total = PurgeOld(@, t, RATE_LIMITS.total.windowMs)]
    IN  IF Len(b1[eventType]) >= RATE_LIMITS[eventType].max
        THEN [allowed |-> FALSE, reason |-> "rate-limited", bucket |-> b1]
        ELSE IF Len(b1.total) >= RATE_LIMITS.total.max
        THEN [allowed |-> FALSE, reason |-> "abuse", bucket |-> b1]
        ELSE [allowed |-> TRUE, reason |-> Undef,
              bucket |-> [b1 EXCEPT ![eventType] = Append(@, t), !.total = Append(@, t)]]

\* checkRateLimit(socketId, eventType) at time t: the verdict and the bucket it leaves
checkRateLimit(limits, c, eventType, t) ==
    LET b0 == getRateLimitBucket(limits, c)
        b1 == [b0 EXCEPT ![eventType] = PurgeOld(@, t, RATE_LIMITS[eventType].windowMs),
                         !.total = PurgeOld(@, t, RATE_LIMITS.total.windowMs)]
    IN  IF Len(b1.total) >= RATE_LIMITS.total.max
        THEN [allowed |-> FALSE, reason |-> "abuse", bucket |-> b1]
        ELSE IF Len(b1[eventType]) >= RATE_LIMITS[eventType].max
        THEN [allowed |-> FALSE, reason |-> "rate-limited", bucket |-> b1]
        ELSE [allowed |-> TRUE, reason |-> Undef,
              bucket |-> [b1 EXCEPT ![eventType] = Append(@, t), !.total = Append(@, t)]]

\* the handler has the result r of checkRateLimit: the bucket is updated, and the step
\* remembers the verdict ("passed", or the reason of the refusal)
RateApplied(S, c, eventType, r) ==
    [S EXCEPT !.rateLimits = MapSet(@, c, r.bucket),
              !.passed[c][eventType] = IF r.allowed THEN Append(@, S.now) ELSE @,
              !.last.rate = IF r.allowed THEN "passed" ELSE r.reason]
\* const rateCheck = checkRateLimit(socket.id, eventType)
RateChecked(S, c, eventType) ==
    RateApplied(S, c, eventType, checkRateLimit(S.rateLimits, c, eventType, S.now))

(***************************************************************************)
(* Input validation and room ids                                           *)
(***************************************************************************)
RECURSIVE KeepChars(_, _)
KeepChars(t, keep) ==
    IF t = "" THEN ""
    ELSE (IF CharAt(t, 1) \in keep THEN CharAt(t, 1) ELSE "")
         \o KeepChars(SubSeq(t, 2, Len(t)), keep)
\* !v of a string-valued input
Falsy(v) == v = Undef \/ v = ""

getRoomId(roomIdOrSlug) ==
    IF Falsy(roomIdOrSlug) THEN DEFAULT_ROOM_ID
    ELSE LET normalized ==
                 Slice0(KeepChars(Trim(ToLowerCase(roomIdOrSlug)),
                                  SlugChars), 32)
         IN  IF normalized = "" THEN DEFAULT_ROOM_ID ELSE normalized

validateColor(color) ==
    IF ~Falsy(color) /\ Len(color) = 7 /\ CharAt(color, 1) = "#"
       /\ \A k \in 2..7 : CharAt(color, k) \in HexChars
    THEN color ELSE Undef
validateHandle(handle) ==
    IF Falsy(handle) THEN Undef
    ELSE LET trimmed == Slice0(Trim(handle), 32)
         IN  IF Len(trimmed) >= 1 /\ \A k \in 1..Len(trimmed) :
                    IsAlnum(CharAt(trimmed, k)) \/ CharAt(trimmed, k) = " "
             THEN trimmed ELSE Undef
validateTag(tag) ==
    IF Falsy(tag) THEN Undef
    ELSE LET trimmed == Slice0(Trim(tag), 16)
         IN  IF Len(trimmed) >= 1 /\ \A k \in 1..Len(trimmed) : IsAlnum(CharAt(trimmed, k))
             THEN trimmed ELSE Undef
validateSigil(sigil) == IF sigil \in Range(SIGILS) THEN sigil ELSE Undef

(***************************************************************************)
(* Rooms, presence, presence ghosts, mood                                  *)
(***************************************************************************)
NewRoom(roomId, title, secret, t) ==
    [id |-> roomId,
     title |-> IF ~Falsy(title) THEN title
               ELSE IF roomId = DEFAULT_ROOM_ID THEN DEFAULT_ROOM_TITLE ELSE roomId,
     secret |-> secret, createdAt |-> t, messages |-> <<>>, sentiment |-> <<>>,
     lastActivity |-> t, lastMessageTs |-> 0, silenceState |-> FALSE,
     presenceGhosts |-> <<>>]

getOrCreateRoom(S, roomId, title, secret) ==
    IF roomId \in DOMAIN S.rooms THEN S
    ELSE [S EXCEPT !.rooms = MapSet(@, roomId, NewRoom(roomId, title, secret, S.now))]

\* the number of distinct IPs of the sockets in Socket.io room roomId
getRoomPresence(S, roomId) ==
    Cardinality({S.socketIdToIP[c] : c \in Members(S, roomId) \cap DOMAIN S.socketIdToIP})

\* while the oldest ghost is older than GHOST_DURATION_MS, drop it
RECURSIVE DropOldGhosts(_, _)
DropOldGhosts(ghosts, t) ==
    IF ghosts # <<>> /\ t - ghosts[1].leftAt > GHOST_DURATION_MS
    THEN DropOldGhosts(Tail(ghosts), t) ELSE ghosts
cleanPresenceGhosts(S, roomId) ==
    IF roomId \notin DOMAIN S.rooms THEN S
    ELSE [S EXCEPT !.rooms[roomId].presenceGhosts = DropOldGhosts(@, S.now)]
\* while (length > 10) shift()
RECURSIVE KeepLast(_, _)
KeepLast(s, n) == IF Len(s) > n THEN KeepLast(Tail(s), n) ELSE s
addPresenceGhost(S, color, handle, roomId) ==
    IF roomId \notin DOMAIN S.rooms THEN S
    ELSE [cleanPresenceGhosts(S, roomId) EXCEPT !.rooms[roomId].presenceGhosts =
              KeepLast(Append(@, [color |-> color, handle |-> handle, leftAt |-> S.now]),
                       MAX_GHOSTS)]
\* the list getPresenceGhosts(roomId) returns, after its cleanPresenceGhosts; fade is in
\* milliseconds: the fade sent is fadeMs / GHOST_DURATION_MS
GhostsPayload(S, roomId) ==
    IF roomId \notin DOMAIN S.rooms THEN <<>>
    ELSE LET gs == cleanPresenceGhosts(S, roomId).rooms[roomId].presenceGhosts
         IN  [k \in DOMAIN gs |->
                 [color |-> gs[k].color, handle |-> gs[k].handle,
                  fadeMs |-> Min(GHOST_DURATION_MS, S.now - gs[k].leftAt)]]
\* emit(to, "presence-ghosts", getPresenceGhosts(roomId))
EmitPresenceGhosts(S, to, roomId) ==
    EmitTo(cleanPresenceGhosts(S, roomId), to, "presence-ghosts",
           [ghosts |-> GhostsPayload(S, roomId)])
\* io.to(roomId).emit("presence-ghosts", getPresenceGhosts(roomId))
EmitPresenceGhostsToRoom(S, roomId) == EmitPresenceGhosts(S, Members(S, roomId), roomId)

RECURSIVE SumSeq(_)
SumSeq(s) == IF s = <<>> THEN 0 ELSE s[1] + SumSeq(Tail(s))
\* a classification whose thresholds belong to the moods next to neutral
getMoodFromScoreInclusive(sum, n) ==
    IF sum <= -40 * n THEN MOOD_INTENSE
    ELSE IF sum >= 40 * n THEN MOOD_CALM
    ELSE MOOD_NEUTRAL

\* scores are in hundredths: avg < -0.4 is sum < -40 * length
getMoodFromScore(sum, n) ==
    IF sum < -40 * n THEN MOOD_INTENSE
    ELSE IF sum > 40 * n THEN MOOD_CALM
    ELSE MOOD_NEUTRAL
computeCurrentMood(history) ==
    IF Len(history) = 0 THEN MOOD_NEUTRAL ELSE getMoodFromScore(SumSeq(history), Len(history))

broadcastPresence(S, roomId) ==
    IoToRoomEmit(S, roomId, "presence", [presence |-> getRoomPresence(S, roomId)])

\* the entries of getAttentionState(io, roomId), as a set
getAttentionState(S, roomId) ==
    {[id |-> c, color |-> S.sockets[c].userColor, handle |-> S.sockets[c].userHandle,
      focused |-> S.socketFocused[c], steppingAway |-> MapGet(S.socketAway, c, FALSE)] :
        c \in {d \in DOMAIN S.socketFocused \cap OpenSockets(S) :
                  /\ S.sockets[d].userColor # Undef
                  /\ MapGet(S.socketToRoom, d, Undef) = roomId}}
broadcastAttention(S, roomId) ==
    IoToRoomEmit(S, roomId, "attention", [state |-> getAttentionState(S, roomId)])

\* a natural number in decimal
RECURSIVE IntToStr(_)
IntToStr(n) ==
    IF n < 10 THEN CharAt(DIGITS, n + 1)
    ELSE IntToStr(n \div 10) \o CharAt(DIGITS, (n % 10) + 1)

\* the end of sendRoomState: the arrival vibe
EmitArrivalVibe(S, c, roomId) ==
    LET room == S.rooms[roomId]
        secs == (S.now - room.lastActivity) \div 1000
        quietFor == IF room.lastActivity = 0 THEN Undef
                    ELSE IF secs < 60 THEN IntToStr(secs) \o "s"
                    ELSE IF secs < 3600 THEN IntToStr(secs \div 60) \o "m"
                    ELSE IntToStr(secs \div 3600) \o "h"
    IN  SocketEmit(S, c, "arrival-vibe",
                   [presence |-> getRoomPresence(S, roomId),
                    mood |-> computeCurrentMood(room.sentiment),
                    quietFor |-> quietFor,
                    hasGhosts |-> Len(room.presenceGhosts) > 0])

\* room.messages.slice(-MAX_MESSAGES)
LastMessages(messages) ==
    SubSeq(messages, Len(messages) - Min(MAX_MESSAGES, Len(messages)) + 1, Len(messages))

\* sendRoomState(socket, io, room, roomId), room being rooms.get(roomId)
sendRoomState(S, c, roomId) ==
    LET room == S.rooms[roomId]
        S1 == SocketEmit(S, c, "room-joined",
                         [id |-> room.id, title |-> room.title, secret |-> room.secret])
        S2 == SocketEmit(S1, c, "ghosts", [messages |-> LastMessages(room.messages)])
        S3 == SocketEmit(S2, c, "mood", [mood |-> computeCurrentMood(room.sentiment)])
        S4 == SocketEmit(S3, c, "room-title", [title |-> room.title])
        S5 == EmitPresenceGhosts(S4, {c}, roomId)
        S6 == SocketEmit(S5, c, "silence",
                         [settled |-> room.silenceState, since |-> room.lastActivity])
    IN  EmitArrivalVibe(S6, c, roomId)

(***************************************************************************)
(* Connection, disconnect                                                  *)
(***************************************************************************)
\* handlers that never clear a pending typing-stop timeout
clearNothing(S, c) == S

\* if (typingTimers.has(socket.id)) clearTimeout(typingTimers.get(socket.id))
clearTypingTimeout(S, c) ==
    IF c \in DOMAIN S.typingTimers
    THEN [S EXCEPT !.typingStops =
             @ \ {[conn |-> c, due |-> S.typingTimers[c].due,
                   roomId |-> S.typingTimers[c].roomId]}]
    ELSE S

\* socket.on("disconnect"): runs when the socket has left its Socket.io rooms
OnDisconnect(S, c) ==
    LET roomId == MapGet(S.socketToRoom, c, DEFAULT_ROOM_ID)
        sock == S.sockets[c]
        S1 == IF sock.userColor # Undef
              THEN EmitPresenceGhostsToRoom(
                       addPresenceGhost(S, sock.userColor, sock.userHandle, roomId), roomId)
              ELSE S
        S2 == [clearTypingTimeout(S1, c) EXCEPT
                         !.socketIdToIP = MapDel(@, c),
                         !.socketFocused = MapDel(@, c),
                         !.socketAway = MapDel(@, c),
                         !.socketToRoom = MapDel(@, c),
                         !.awayTimers = MapDel(@, c),
                         !.rateLimits = MapDel(@, c),
                         !.typingTimers = MapDel(@, c)]
    IN  broadcastAttention(broadcastPresence(S2, roomId), roomId)

\* a socket that closes without its "disconnect" listener being run
CloseSocketUnheard(S, c) ==
    IF S.sockets[c].state # "open" THEN S
    ELSE [S EXCEPT !.sockets[c].state = "closed", !.adapter[c] = {}]

\* the socket closes (socket.disconnect(true), or the client goes): Socket.io takes it
\* out of its rooms and of io.sockets.sockets, then the "disconnect" listener runs if
\* the connection handler registered one
CloseSocket(S, c) ==
    IF S.sockets[c].state # "open" THEN S
    ELSE OnDisconnect([S EXCEPT !.sockets[c].state = "closed", !.adapter[c] = {}], c)

\* a connection handler that does not look at bannedIPs
OnConnectionUnchecked(S, c, ip) ==
    [S EXCEPT !.sockets[c] = [NewSocket EXCEPT !.state = "open", !.ip = ip]]

\* io.on("connection"): a banned IP is told so and disconnected before any listener
\* is registered
OnConnection(S, c, ip) ==
    IF ip \in S.bannedIPs
    THEN [EmitTo(S, {c}, "banned", [reason |-> "You have been banned."])
            EXCEPT !.sockets[c] = [NewSocket EXCEPT !.state = "closed", !.ip = ip]]
    ELSE [S EXCEPT !.sockets[c] = [NewSocket EXCEPT !.state = "open", !.ip = ip]]

\* if (rateCheck.reason === "abuse") socket.disconnect(true)
DisconnectOnAbuse(S, c) == IF S.last.rate = "abuse" THEN CloseSocket(S, c) ELSE S
\* the reply of join and message to a refused event
RateRejected(S, c, event) ==
    DisconnectOnAbuse(
        SocketEmit(S, c, "rate-limited", [event |-> event, reason |-> S.last.rate]), c)

(***************************************************************************)
(* join                                                                    *)
(***************************************************************************)
\* socket.leave(prevRoomId) and what join and switch-room tell the room left
LeaveRoom(S, c, prevRoomId) ==
    EmitPresenceGhostsToRoom(
        broadcastAttention(
            broadcastPresence(
                addPresenceGhost([S EXCEPT !.adapter[c] = @ \ {prevRoomId}],
                                 S.sockets[c].userColor, S.sockets[c].userHandle, prevRoomId),
                prevRoomId),
            prevRoomId),
        prevRoomId)

\* socket.join(roomId) and what join and switch-room tell the room entered
EnterRoom(S, c, roomId) ==
    broadcastAttention(
        broadcastPresence([S EXCEPT !.adapter[c] = @ \cup {roomId},
                                    !.socketToRoom = MapSet(@, c, roomId)], roomId),
        roomId)

\* join: the identity of the socket, from the payload p and what Math.random() picks
SetIdentity(S, c, p, rnd) ==
    [S EXCEPT !.socketIdToIP = MapSet(@, c, S.sockets[c].ip),
              !.socketFocused = MapSet(@, c, TRUE),
              !.sockets[c].userColor =
                  IF validateColor(p.color) # Undef THEN validateColor(p.color) ELSE rnd.color,
              !.sockets[c].userHandle = validateHandle(p.handle),
              !.sockets[c].userTag = validateTag(p.tag),
              !.sockets[c].userSigil =
                  IF validateSigil(p.sigil) # Undef THEN validateSigil(p.sigil) ELSE rnd.sigil]

EmitIdentity(S, c) ==
    SocketEmit(S, c, "identity",
               [color |-> S.sockets[c].userColor, handle |-> S.sockets[c].userHandle,
                tag |-> S.sockets[c].userTag, sigil |-> S.sockets[c].userSigil])

\* a join that creates every room it names, whatever the size of the registry
JoinRoomIdUncapped(S, requested) == requested

\* the room a join enters: the requested room, or the default room when the requested
\* one does not exist and MAX_ROOMS rooms do
JoinRoomId(S, requested) ==
    IF requested \notin DOMAIN S.rooms /\ requested # DEFAULT_ROOM_ID
       /\ Cardinality(DOMAIN S.rooms) >= MAX_ROOMS
    THEN DEFAULT_ROOM_ID ELSE requested

\* join, once the identity is set
JoinRoom(S, c, requested) ==
    LET roomId == JoinRoomId(S, requested)
        hasPrev == c \in DOMAIN S.socketToRoom /\ S.socketToRoom[c] # roomId
        S1 == getOrCreateRoom(S, roomId, Undef, FALSE)
        S2 == IF hasPrev THEN LeaveRoom(S1, c, S.socketToRoom[c]) ELSE S1
    IN  sendRoomState(EmitIdentity(EnterRoom(S2, c, roomId), c), c, roomId)

\* join, after its rate check
JoinChecked(R, c, p, rnd) ==
    IF R.last.rate # "passed" THEN RateRejected(R, c, "join")
    ELSE JoinRoom(SetIdentity(R, c, p, rnd), c, getRoomId(p.roomId))

\* socket.on("join"); p is the payload, rnd the values Math.random() picks
OnJoin(S, c, p, rnd) == JoinChecked(RateChecked(S, c, "join"), c, p, rnd)

(***************************************************************************)
(* message                                                                 *)
(***************************************************************************)
\* sentiment.analyze(text).score of the sentiment package (AFINN word scores), for the
\* words of the texts the model sends; in hundredths
SentimentScore(t) ==
    LET l == ToLowerCase(t)
        has(w) == \E k \in 1..Len(l) : HasAt(l, k, w)
    IN  IF has("good") THEN 300 ELSE IF has("bad") THEN -300 ELSE 0

\* energyPenalty(text), in hundredths
energyPenalty(t) ==
    IF Len(t) = 0 THEN 0
    ELSE LET letters == Cardinality({k \in 1..Len(t) : IsLetter(CharAt(t, k))})
             caps == Cardinality({k \in 1..Len(t) : IsUpper(CharAt(t, k))})
             exclamations == Cardinality({k \in 1..Len(t) : CharAt(t, k) = "!"})
             mostlyCaps == letters > 0 /\ caps * 10 > 6 * letters
         IN  (IF mostlyCaps THEN 60 ELSE 0) + Min(exclamations * 25, 80)

\* a push that makes room by dropping the newest entry instead of the oldest
PushDropNewest(arr, v, cap) ==
    IF Len(arr) + 1 > cap THEN Append(SubSeq(arr, 1, Len(arr) - 1), v) ELSE Append(arr, v)

\* array.push(v); if (array.length > cap) array.shift()
PushCapped(arr, v, cap) ==
    IF Len(arr) + 1 > cap THEN Tail(Append(arr, v)) ELSE Append(arr, v)

\* an activity record that leaves the silence flag as it is
recordActivityKeepingSilence(S, roomId) ==
    IF roomId \notin DOMAIN S.rooms THEN S
    ELSE [S EXCEPT !.rooms[roomId].lastActivity = S.now]

\* recordActivity(roomId)
recordActivity(S, roomId) ==
    IF roomId \notin DOMAIN S.rooms THEN S
    ELSE [S EXCEPT !.rooms[roomId].lastActivity = S.now,
                   !.rooms[roomId].silenceState = FALSE]

\* the bigotry branch of socket.on("message"): mask, force-reveal, broadcast, ban.
\* socket.userColor.slice throws a TypeError when the socket has neither a handle nor
\* a color (it never joined): the handler ends there.
BigotryBranch(S, c, roomId, maskedText) ==
    LET sock == S.sockets[c]
    IN  IF sock.userHandle = Undef /\ sock.userColor = Undef THEN S
        ELSE
        LET revealedHandle == IF sock.userHandle # Undef THEN sock.userHandle
                              ELSE "anon-" \o SubSeq(sock.userColor, 2, 4)
            msg == [id |-> S.msgSeq + 1, text |-> maskedText,
                    color |-> IF sock.userColor # Undef THEN sock.userColor ELSE DEFAULT_COLOR,
                    handle |-> revealedHandle, tag |-> sock.userTag, sigil |-> sock.userSigil,
                    whisper |-> FALSE, ts |-> S.now, flagged |-> TRUE]
            S1 == IoToRoomEmit([S EXCEPT !.msgSeq = @ + 1], roomId, "message", msg)
            S2 == IoToRoomEmit(S1, roomId, "user-banned",
                               [color |-> sock.userColor, handle |-> revealedHandle,
                                reason |-> "bigotry"])
            S3 == [S2 EXCEPT !.bannedIPs = @ \cup {sock.ip}]
            S4 == SocketEmit(S3, c, "banned", [reason |-> "Bigotry is not tolerated."])
        IN  CloseSocket(S4, c)

\* io.to(roomId).emit("mood", computeCurrentMood(room.sentiment))
EmitMood(S, roomId) ==
    IoToRoomEmit(S, roomId, "mood", [mood |-> computeCurrentMood(S.rooms[roomId].sentiment)])

\* the rest of socket.on("message"): an accepted message
AcceptedBranch(S, c, roomId, trimmed, whisper) ==
    LET sock == S.sockets[c]
        S1 == recordActivity([S EXCEPT !.rooms[roomId].lastMessageTs = S.now], roomId)
        S2 == IoToRoomEmit(S1, roomId, "silence", [settled |-> FALSE])
        effectiveScore == SentimentScore(trimmed) - energyPenalty(trimmed)
        msg == [id |-> S.msgSeq + 1, text |-> trimmed,
                color |-> IF sock.userColor # Undef THEN sock.userColor ELSE DEFAULT_COLOR,
                handle |-> sock.userHandle, tag |-> sock.userTag, sigil |-> sock.userSigil,
                whisper |-> whisper, ts |-> S.now, flagged |-> FALSE]
        S3 == [S2 EXCEPT !.msgSeq = @ + 1,
                         !.rooms[roomId].sentiment =
                             PushCapped(@, effectiveScore, MAX_SENTIMENT_HISTORY),
                         !.rooms[roomId].messages = PushCapped(@, msg, MAX_MESSAGES)]
    IN  EmitMood(IoToRoomEmit(S3, roomId, "message", msg), roomId)

\* message, once moderation.moderate(trimmed) has returned modResult
MessageModerated(S, c, roomId, trimmed, whisper, modResult) ==
    IF ~modResult.allowed /\ modResult.reason = "no-links"
    THEN SocketEmit([S EXCEPT !.urlLastIndex = modResult.lastIndex], c, "message-rejected",
                    [reason |-> "Links are not allowed."])
    ELSE IF modResult.isBigotry
    THEN BigotryBranch([S EXCEPT !.urlLastIndex = modResult.lastIndex], c, roomId,
                       modResult.maskedText)
    ELSE AcceptedBranch([S EXCEPT !.urlLastIndex = modResult.lastIndex], c, roomId, trimmed,
                        whisper)

\* message, when the text trimmed is not empty
MessageText(S, c, roomId, trimmed, whisper) ==
    MessageModerated(getOrCreateRoom(S, roomId, Undef, FALSE), c, roomId, trimmed, whisper,
                     Moderated(trimmed, S.urlLastIndex))

\* a text that is trimmed and never cut
TrimmedUncut(text) == Trim(text)

\* const trimmed = text.trim().slice(0, 500)
Trimmed(text) == Slice0(Trim(text), MAX_TEXT)

\* message, after its rate check
MessageChecked(R, c, text, whisper) ==
    IF R.last.rate # "passed" THEN RateRejected(R, c, "message")
    ELSE IF Falsy(text) \/ Trimmed(text) = "" THEN R
    ELSE MessageText(R, c, MapGet(R.socketToRoom, c, DEFAULT_ROOM_ID), Trimmed(text),
                     whisper)

\* socket.on("message"); text is the payload's text, whisper its whisper flag
OnMessage(S, c, text, whisper) == MessageChecked(RateChecked(S, c, "message"), c, text, whisper)

(***************************************************************************)
(* reveal                                                                  *)
(***************************************************************************)
\* a rewrite that does not look at the color of the message
RewrittenAnyColor(messages, color, sock) ==
    [k \in DOMAIN messages |->
        [messages[k] EXCEPT !.handle = sock.userHandle, !.tag = sock.userTag,
                            !.sigil = sock.userSigil]]

\* for (const msg of room.messages) if (msg.color === color) { msg.handle = ...; ... }
Rewritten(messages, color, sock) ==
    [k \in DOMAIN messages |->
        IF messages[k].color = color
        THEN [messages[k] EXCEPT !.handle = sock.userHandle, !.tag = sock.userTag,
                                 !.sigil = sock.userSigil]
        ELSE messages[k]]

\* const color = socket.userColor || "#7b5278"
ColorOf(S, c) == IF S.sockets[c].userColor # Undef THEN S.sockets[c].userColor ELSE DEFAULT_COLOR

\* reveal, once the socket carries the new identity: the messages of the caller's room
\* are rewritten, the caller and the room are told
RevealInRoom(S, c, roomId) ==
    LET told == [color |-> ColorOf(S, c), handle |-> S.sockets[c].userHandle,
                 tag |-> S.sockets[c].userTag, sigil |-> S.sockets[c].userSigil]
    IN  IoToRoomEmit(
            SocketEmit(
                IF roomId \in DOMAIN S.rooms
                THEN [S EXCEPT !.rooms[roomId].messages =
                                   Rewritten(@, ColorOf(S, c), S.sockets[c])]
                ELSE S,
                c, "identity", told),
            roomId, "identity-revealed", told)

\* socket.on("reveal"); p is the payload: an invalid handle or tag becomes null, an
\* invalid sigil leaves the sigil as it was
OnReveal(S, c, p) ==
    RevealInRoom([S EXCEPT !.sockets[c].userHandle = validateHandle(p.handle),
                           !.sockets[c].userTag = validateTag(p.tag),
                           !.sockets[c].userSigil =
                               IF validateSigil(p.sigil) # Undef THEN validateSigil(p.sigil)
                               ELSE @],
                 c, MapGet(S.socketToRoom, c, DEFAULT_ROOM_ID))

(***************************************************************************)
(* The mood decay timer                                                    *)
(***************************************************************************)
\* a decay that takes a room whose last message is exactly MOOD_DECAY_MS old
DecayDueAtThreshold(room, t) ==
    t - room.lastMessageTs >= MOOD_DECAY_MS /\ Len(room.sentiment) > 0

\* now - room.lastMessageTs > MOOD_DECAY_MS && room.sentiment.length > 0
DecayDue(room, t) ==
    t - room.lastMessageTs > MOOD_DECAY_MS /\ Len(room.sentiment) > 0

\* a decay that pushes and never shifts
DecayedHistoryUncapped(history) == Append(history, 0)

\* room.sentiment.push(0); if (room.sentiment.length > MAX_SENTIMENT_HISTORY) shift()
DecayedHistory(history) == PushCapped(history, 0, MAX_SENTIMENT_HISTORY)

\* the body of the loop of the decay callback, for the room roomId
DecayRoom(S, roomId) ==
    IF DecayDue(S.rooms[roomId], S.now)
    THEN EmitMood([S EXCEPT !.rooms[roomId].sentiment = DecayedHistory(@)], roomId)
    ELSE S

\* for (const [roomId, room] of rooms): the rooms todo, one after the other (the order
\* decides only the order of the mood events, which go to different rooms)
RECURSIVE DecayRooms(_, _)
DecayRooms(S, todo) ==
    IF todo = {} THEN S
    ELSE LET roomId == CHOOSE r \in todo : TRUE
         IN  DecayRooms(DecayRoom(S, roomId), todo \ {roomId})

\* the callback of the interval that startMoodDecayTimer sets
OnMoodDecay(S) == DecayRooms(S, DOMAIN S.rooms)

(***************************************************************************)
(* Silence: the periodic sweep                                             *)
(***************************************************************************)
\* a room that counts as silent as soon as the threshold is reached
isSilentAtThreshold(room, t) == t - room.lastActivity >= SILENCE_THRESHOLD_MS

\* const isSilent = now - room.lastActivity > SILENCE_THRESHOLD_MS
isSilent(room, t) == t - room.lastActivity > SILENCE_THRESHOLD_MS

\* checkSilence(io, roomId)
checkSilence(S, roomId) ==
    IF roomId \notin DOMAIN S.rooms THEN S
    ELSE IF isSilent(S.rooms[roomId], S.now) /\ ~S.rooms[roomId].silenceState
    THEN IoToRoomEmit([S EXCEPT !.rooms[roomId].silenceState = TRUE], roomId, "silence",
                      [settled |-> TRUE, since |-> S.rooms[roomId].lastActivity])
    ELSE IF ~isSilent(S.rooms[roomId], S.now) /\ S.rooms[roomId].silenceState
    THEN IoToRoomEmit([S EXCEPT !.rooms[roomId].silenceState = FALSE], roomId, "silence",
                      [settled |-> FALSE])
    ELSE S

\* checkAllRoomsSilence(io): for (const roomId of rooms.keys()) checkSilence(io, roomId);
\* the rooms todo, one after the other (the order decides only the order of the silence
\* events, which go to different rooms)
RECURSIVE checkAllRoomsSilence(_, _)
checkAllRoomsSilence(S, todo) ==
    IF todo = {} THEN S
    ELSE LET roomId == CHOOSE r \in todo : TRUE
         IN  checkAllRoomsSilence(checkSilence(S, roomId), todo \ {roomId})

\* the callback of the interval that startSilenceTimer sets
OnSilenceSweep(S) == checkAllRoomsSilence(S, DOMAIN S.rooms)

(***************************************************************************)
(* typing, ping                                                            *)
(***************************************************************************)
\* typing, after its rate check: a refused event is dropped without a reply
TypingChecked(R, c) ==
    LET roomId == MapGet(R.socketToRoom, c, DEFAULT_ROOM_ID)
        S1 == IoToRoomEmit(recordActivity(R, roomId), roomId, "silence", [settled |-> FALSE])
        S2 == SocketToRoomEmit(S1, c, roomId, "typing",
                               [color |-> R.sockets[c].userColor,
                                handle |-> R.sockets[c].userHandle])
        S3 == clearTypingTimeout(S2, c)
    IN  IF R.last.rate # "passed" THEN DisconnectOnAbuse(R, c)
        ELSE [S3 EXCEPT !.typingTimers =
                            MapSet(@, c, [due |-> R.now + TYPING_STOP_MS, roomId |-> roomId]),
                        !.typingStops =
                            @ \cup {[conn |-> c, due |-> R.now + TYPING_STOP_MS,
                                     roomId |-> roomId]}]

\* socket.on("typing")
OnTyping(S, c) == TypingChecked(RateChecked(S, c, "typing"), c)

\* the timeout t that a typing event set fires
OnTypingTimeout(S, t) ==
    LET S1 == SocketToRoomEmit(S, t.conn, t.roomId, "typing-stop",
                               [color |-> S.sockets[t.conn].userColor])
    IN  [S1 EXCEPT !.typingTimers = MapDel(@, t.conn), !.typingStops = @ \ {t}]

\* socket.on("typing-stop")
OnTypingStop(S, c) ==
    LET S1 == SocketToRoomEmit(S, c, MapGet(S.socketToRoom, c, DEFAULT_ROOM_ID),
                               "typing-stop", [color |-> S.sockets[c].userColor])
    IN  [clearTypingTimeout(S1, c) EXCEPT !.typingTimers = MapDel(@, c)]

\* socket.on("ping")
OnPing(S, c) == SocketEmit(S, c, "pong", [none |-> TRUE])

(***************************************************************************)
(* focus, blur, away, back                                                 *)
(***************************************************************************)
\* socket.on("focus") and socket.on("blur")
OnFocus(S, c, focused) ==
    broadcastAttention([S EXCEPT !.socketFocused = MapSet(@, c, focused)],
                       MapGet(S.socketToRoom, c, DEFAULT_ROOM_ID))

\* an away that leaves a pending timeout running
AwayInRoomKeepingTimer(S, c, roomId) ==
    [IoToRoomEmit(broadcastAttention(S, roomId), roomId, "user-away",
                  [color |-> S.sockets[c].userColor, handle |-> S.sockets[c].userHandle])
        EXCEPT !.awayTimers = IF c \in DOMAIN @ THEN @
                              ELSE MapSet(@, c, [due |-> S.now + AWAY_TIMEOUT_MS])]

\* away, once socketAway is set: the room is told, the timeout replaces a pending one
AwayInRoom(S, c, roomId) ==
    [IoToRoomEmit(broadcastAttention(S, roomId), roomId, "user-away",
                  [color |-> S.sockets[c].userColor, handle |-> S.sockets[c].userHandle])
        EXCEPT !.awayTimers = MapSet(@, c, [due |-> S.now + AWAY_TIMEOUT_MS])]

\* socket.on("away")
OnAway(S, c) ==
    AwayInRoom([S EXCEPT !.socketAway = MapSet(@, c, TRUE)], c,
               MapGet(S.socketToRoom, c, DEFAULT_ROOM_ID))

\* back, once socketAway and the timeout are gone
BackInRoom(S, c, roomId, wasAway) ==
    IF wasAway
    THEN IoToRoomEmit(broadcastAttention(S, roomId), roomId, "user-back",
                      [color |-> S.sockets[c].userColor, handle |-> S.sockets[c].userHandle])
    ELSE S

\* socket.on("back")
OnBack(S, c) ==
    BackInRoom([S EXCEPT !.socketAway = MapDel(@, c), !.awayTimers = MapDel(@, c)], c,
               MapGet(S.socketToRoom, c, DEFAULT_ROOM_ID), MapGet(S.socketAway, c, FALSE))

\* the timeout an away event set fires: if (socketAway.get(socket.id)) disconnect. The
\* callback leaves its entry in awayTimers; a timeout that has fired has the due time 0
OnAwayTimeout(S, c) ==
    IF MapGet(S.socketAway, c, FALSE) THEN CloseSocket(S, c)
    ELSE [S EXCEPT !.awayTimers[c].due = 0]

(***************************************************************************)
(* Rooms: create, delete, switch                                           *)
(***************************************************************************)
\* s.replace(/\s+/g, "-")
RECURSIVE SpacesToHyphen(_)
SpacesToHyphen(t) ==
    IF t = "" THEN ""
    ELSE IF IsSpace(CharAt(t, 1))
    THEN "-" \o SpacesToHyphen(TrimLeft(t))
    ELSE CharAt(t, 1) \o SpacesToHyphen(SubSeq(t, 2, Len(t)))

\* a room list that names every room of the registry
RoomListPayloadAll(S) ==
    {[id |-> S.rooms[r].id, title |-> S.rooms[r].title,
      presence |-> getRoomPresence(S, r), lastActivity |-> S.rooms[r].lastActivity] :
        r \in DOMAIN S.rooms}

\* the room-list payload: the public rooms with their presence
RoomListPayload(S) ==
    {[id |-> S.rooms[r].id, title |-> S.rooms[r].title,
      presence |-> getRoomPresence(S, r), lastActivity |-> S.rooms[r].lastActivity] :
        r \in {q \in DOMAIN S.rooms : ~S.rooms[q].secret}}

\* socket.on("list-rooms")
OnListRooms(S, c) == SocketEmit(S, c, "room-list", [rooms |-> RoomListPayload(S)])

\* if (!secret) io.emit("room-list", getRoomList())
AnnounceRooms(S, secret) ==
    IF ~secret THEN IoEmit(S, "room-list", [rooms |-> RoomListPayload(S)]) ELSE S

\* a create-room that does not look at the size of the registry
CreateRoomNamedOverCap(R, c, sanitizedTitle, roomId, secret) ==
    IF roomId \in DOMAIN R.rooms
    THEN SocketEmit(R, c, "room-create-failed", [reason |-> "Room already exists"])
    ELSE AnnounceRooms(
             SocketEmit(getOrCreateRoom(R, roomId, sanitizedTitle, secret), c, "room-created",
                        [roomId |-> roomId, title |-> sanitizedTitle, secret |-> secret]),
             secret)

\* create-room, once the title is sanitized and the room id derived from it
CreateRoomNamed(R, c, sanitizedTitle, roomId, secret) ==
    IF Cardinality(DOMAIN R.rooms) >= MAX_ROOMS
    THEN SocketEmit(R, c, "room-create-failed", [reason |-> "Maximum room limit reached"])
    ELSE IF roomId \in DOMAIN R.rooms
    THEN SocketEmit(R, c, "room-create-failed", [reason |-> "Room already exists"])
    ELSE AnnounceRooms(
             SocketEmit(getOrCreateRoom(R, roomId, sanitizedTitle, secret), c, "room-created",
                        [roomId |-> roomId, title |-> sanitizedTitle, secret |-> secret]),
             secret)

\* create-room, after its rate check: a refused event gets room-create-failed and the
\* handler returns, whatever the reason of the refusal
CreateRoomChecked(R, c, title, secret) ==
    IF R.last.rate # "passed"
    THEN SocketEmit(R, c, "room-create-failed",
                    [reason |-> "Too many room creations. Please wait."])
    ELSE IF Falsy(title)
    THEN SocketEmit(R, c, "room-create-failed", [reason |-> "Title required"])
    ELSE CreateRoomNamed(R, c, Slice0(Trim(title), 64),
                         getRoomId(SpacesToHyphen(Slice0(Trim(title), 64))), secret)

\* socket.on("create-room")
OnCreateRoom(S, c, title, secret) ==
    CreateRoomChecked(RateChecked(S, c, "createRoom"), c, title, secret)

\* a clean-up that leaves every DM session and timer in place
KeepRoomDMs(S, roomId) == S

\* delete-room clears the expiry timers whose key starts with the room id, and the DM
\* sessions of those keys
PurgeRoomDMs(S, roomId) ==
    LET scoped == {k \in DOMAIN S.dmCleanupTimers : HasAt(k, 1, roomId \o ":")}
    IN  [S EXCEPT !.dmCleanupTimers = [k \in DOMAIN @ \ scoped |-> @[k]],
                  !.activeDMs = [k \in DOMAIN @ \ scoped |-> @[k]]]

\* a delete-room that treats the default room like any other room
DeleteRoomNamedAny(S, c, roomId) ==
    IF roomId \notin DOMAIN S.rooms
    THEN SocketEmit(S, c, "room-delete-failed", [reason |-> "Room not found"])
    ELSE IF getRoomPresence(S, roomId) > 0
    THEN SocketEmit(S, c, "room-delete-failed", [reason |-> "Room must be empty to delete"])
    ELSE AnnounceRooms(SocketEmit([S EXCEPT !.rooms = MapDel(@, roomId)],
                                  c, "room-deleted", [roomId |-> roomId]),
                       S.rooms[roomId].secret)

\* delete-room of the room roomId
DeleteRoomNamed(S, c, roomId) ==
    LET failed(reason) == SocketEmit(S, c, "room-delete-failed", [reason |-> reason])
    IN  IF roomId = DEFAULT_ROOM_ID THEN failed("Cannot delete the main room")
        ELSE IF roomId \notin DOMAIN S.rooms THEN failed("Room not found")
        ELSE IF getRoomPresence(S, roomId) > 0 THEN failed("Room must be empty to delete")
        ELSE AnnounceRooms(
                 SocketEmit([PurgeRoomDMs(S, roomId) EXCEPT !.rooms = MapDel(@, roomId)],
                            c, "room-deleted", [roomId |-> roomId]),
                 S.rooms[roomId].secret)

\* socket.on("delete-room")
OnDeleteRoom(S, c, targetRoomId) ==
    IF Falsy(targetRoomId)
    THEN SocketEmit(S, c, "room-delete-failed", [reason |-> "Room ID required"])
    ELSE DeleteRoomNamed(S, c, getRoomId(targetRoomId))

\* switch-room to the room roomId
SwitchTo(S, c, roomId) ==
    LET joined == c \in DOMAIN S.socketToRoom
        S1 == IF joined THEN LeaveRoom(S, c, S.socketToRoom[c]) ELSE S
    IN  IF joined /\ S.socketToRoom[c] = roomId THEN S
        ELSE IF roomId \notin DOMAIN S.rooms /\ roomId # DEFAULT_ROOM_ID
        THEN SocketEmit(S, c, "room-switch-failed", [reason |-> "Room does not exist"])
        ELSE sendRoomState(EnterRoom(getOrCreateRoom(S1, roomId, Undef, FALSE), c, roomId),
                           c, roomId)

\* socket.on("switch-room")
OnSwitchRoom(S, c, targetRoomId) ==
    IF Falsy(targetRoomId)
    THEN SocketEmit(S, c, "room-switch-failed", [reason |-> "Room ID required"])
    ELSE SwitchTo(S, c, getRoomId(targetRoomId))

(***************************************************************************)
(* Direct messages (crosstalk)                                             *)
(***************************************************************************)
\* the characters of colors and room ids in UTF-16 order, for Array.prototype.sort
CODE_ORDER == "#-0123456789ABCDEFGHIJKLMNOPQRSTUVWXYZ_abcdefghijklmnopqrstuvwxyz"
CodeOf == [ch \in Chars(CODE_ORDER) |-> CHOOSE i \in 1..Len(CODE_ORDER) : CharAt(CODE_ORDER, i) = ch]
RECURSIVE StrLess(_, _)
StrLess(a, b) ==
    IF b = "" THEN FALSE
    ELSE IF a = "" THEN TRUE
    ELSE IF CharAt(a, 1) = CharAt(b, 1) THEN StrLess(SubSeq(a, 2, Len(a)), SubSeq(b, 2, Len(b)))
    ELSE CodeOf[CharAt(a, 1)] < CodeOf[CharAt(b, 1)]
\* [color1, color2].sort(): undefined goes last
SortedPair(a, b) ==
    IF a = Undef THEN <<b, a>>
    ELSE IF b = Undef THEN <<a, b>>
    ELSE IF StrLess(b, a) THEN <<b, a>> ELSE <<a, b>>
\* Array.prototype.join writes undefined as the empty string
Shown(v) == IF v = Undef THEN "" ELSE v
getDMKey(color1, color2, roomId) ==
    LET pair == SortedPair(color1, color2)
    IN  roomId \o ":" \o Shown(pair[1]) \o ":" \o Shown(pair[2])

\* the first socket of io.sockets.sockets (in connection order) with that color in
\* the room; 0 when there is none
FirstByColor(S, color, roomId) ==
    LET hits == {d \in OpenSockets(S) : /\ S.sockets[d].userColor = color
                                        /\ MapGet(S.socketToRoom, d, Undef) = roomId}
    IN  IF hits = {} THEN 0 ELSE CHOOSE d \in hits : \A e \in hits : d <= e
\* the socket with that id if it is in the room; 0 otherwise
ByIdInRoom(S, id, roomId) ==
    IF id \in OpenSockets(S) /\ MapGet(S.socketToRoom, id, Undef) = roomId THEN id ELSE 0

\* the target socket socket.on("dm") resolves: by socket id when one is given (0: none),
\* else by color
DmTarget(S, roomId, targetColor, targetSocketId) ==
    IF targetSocketId # 0 THEN ByIdInRoom(S, targetSocketId, roomId)
    ELSE FirstByColor(S, targetColor, roomId)

\* the crosstalk event of a dm
CrosstalkPayload(S, c, target) ==
    [participants |->
        <<[color |-> S.sockets[c].userColor, handle |-> S.sockets[c].userHandle],
          [color |-> S.sockets[target].userColor, handle |-> S.sockets[target].userHandle]>>,
     ts |-> S.now]

\* a delivery that sends the DM to the whole room
DmToRoom(S, c, target, roomId, msg) == IoToRoomEmit(S, roomId, "dm-received", msg)

\* socket.emit("dm-received", msg); targetSocket.emit("dm-received", msg)
DmDelivery(S, c, target, roomId, msg) ==
    SocketEmit(SocketEmit(S, c, "dm-received", msg), target, "dm-received", msg)

\* a dm that leaves a pending expiry timer of the pair as it is
DmKeepingTimer(S, c, roomId, target, trimmed) ==
    LET senderColor == S.sockets[c].userColor
        resolvedTargetColor == S.sockets[target].userColor
        dmKey == getDMKey(senderColor, resolvedTargetColor, roomId)
        participants == <<senderColor, resolvedTargetColor>>
        session == [participants |-> participants, lastActivity |-> S.now]
        timer == [due |-> S.now + DM_EXPIRY_MS, roomId |-> roomId,
                  participants |-> participants]
        msg == [id |-> "dm-" \o IntToStr(S.now), text |-> trimmed, color |-> senderColor,
                handle |-> S.sockets[c].userHandle, sigil |-> S.sockets[c].userSigil,
                targetColor |-> resolvedTargetColor, targetSocketId |-> target,
                targetHandle |-> S.sockets[target].userHandle, ts |-> S.now]
        S1 == [S EXCEPT !.activeDMs = MapSet(@, dmKey, session),
                        !.dmCleanupTimers =
                            IF dmKey \in DOMAIN @ THEN @ ELSE MapSet(@, dmKey, timer)]
    IN  IoToRoomEmit(DmDelivery(S1, c, target, roomId, msg), roomId, "crosstalk",
                     CrosstalkPayload(S, c, target))

\* dm with the text trimmed to the socket target, which is in the sender's room roomId
DmTo(S, c, roomId, target, trimmed) ==
    LET senderColor == S.sockets[c].userColor
        resolvedTargetColor == S.sockets[target].userColor
        dmKey == getDMKey(senderColor, resolvedTargetColor, roomId)
        participants == <<senderColor, resolvedTargetColor>>
        session == [participants |-> participants, lastActivity |-> S.now]
        timer == [due |-> S.now + DM_EXPIRY_MS, roomId |-> roomId,
                  participants |-> participants]
        msg == [id |-> "dm-" \o IntToStr(S.now), text |-> trimmed, color |-> senderColor,
                handle |-> S.sockets[c].userHandle, sigil |-> S.sockets[c].userSigil,
                targetColor |-> resolvedTargetColor, targetSocketId |-> target,
                targetHandle |-> S.sockets[target].userHandle, ts |-> S.now]
        S1 == [S EXCEPT !.activeDMs = MapSet(@, dmKey, session),
                        !.dmCleanupTimers = MapSet(@, dmKey, timer)]
    IN  IoToRoomEmit(DmDelivery(S1, c, target, roomId, msg), roomId, "crosstalk",
                     CrosstalkPayload(S, c, target))

\* a dm that tells the whole room when its target is not found
DmFailedToRoom(S, c, roomId, target, trimmed) ==
    IF target = 0 THEN IoToRoomEmit(S, roomId, "dm-failed", [reason |-> "User not in room"])
    ELSE DmTo(S, c, roomId, target, trimmed)

\* dm, once the target is looked up (0: not found)
DmResolved(S, c, roomId, target, trimmed) ==
    IF target = 0 THEN SocketEmit(S, c, "dm-failed", [reason |-> "User not in room"])
    ELSE DmTo(S, c, roomId, target, trimmed)

\* socket.on("dm")
OnDm(S, c, targetColor, targetSocketId, text) ==
    IF (Falsy(targetColor) /\ targetSocketId = 0) \/ Falsy(text)
       \/ Slice0(Trim(text), MAX_TEXT) = ""
    THEN S
    ELSE DmResolved(S, c, MapGet(S.socketToRoom, c, DEFAULT_ROOM_ID),
                    DmTarget(S, MapGet(S.socketToRoom, c, DEFAULT_ROOM_ID), targetColor,
                             targetSocketId),
                    Slice0(Trim(text), MAX_TEXT))

\* the expiry timeout of a DM pair fires
OnDmExpire(S, dmKey) ==
    LET timer == S.dmCleanupTimers[dmKey]
        S1 == [S EXCEPT !.activeDMs = MapDel(@, dmKey),
                        !.dmCleanupTimers = MapDel(@, dmKey)]
    IN  IoToRoomEmit(S1, timer.roomId, "crosstalk-ended", [participants |-> timer.participants])

\* dm-typing, once the target is looked up (0: not found)
DmTypingResolved(R, c, target) ==
    IF target = 0 THEN R
    ELSE SocketEmit(R, target, "dm-typing",
                    [color |-> R.sockets[c].userColor, handle |-> R.sockets[c].userHandle])

\* the target socket dm-typing resolves: by socket id when that socket is in the room,
\* else by color
DmTypingTarget(S, roomId, targetColor, targetSocketId) ==
    IF targetSocketId # 0 /\ ByIdInRoom(S, targetSocketId, roomId) # 0
    THEN targetSocketId
    ELSE FirstByColor(S, targetColor, roomId)

\* dm-typing, after its rate check: a refused event is dropped and the handler returns,
\* whatever the reason of the refusal
DmTypingChecked(R, c, targetColor, targetSocketId) ==
    IF R.last.rate # "passed" \/ (Falsy(targetColor) /\ targetSocketId = 0) THEN R
    ELSE DmTypingResolved(R, c,
             DmTypingTarget(R, MapGet(R.socketToRoom, c, DEFAULT_ROOM_ID), targetColor,
                            targetSocketId))

\* socket.on("dm-typing")
OnDmTyping(S, c, targetColor, targetSocketId) ==
    DmTypingChecked(RateChecked(S, c, "typing"), c, targetColor, targetSocketId)

\* addResonance(messageId): the state after it; the count it returns is the new entry
addResonance(S, messageId) ==
    [S EXCEPT !.messageResonance = MapSet(@, messageId, MapGet(@, messageId, 0) + 1),
              !.resonanceTimers =
                  @ \cup {[messageId |-> messageId, due |-> S.now + RESONANCE_DECAY_MS]}]

\* the cleanup timeout that addResonance scheduled fires
OnResonanceDecay(S, t) ==
    [S EXCEPT !.messageResonance = MapDel(@, t.messageId), !.resonanceTimers = @ \ {t}]

\* copy, once the copy event is sent
CopyTracked(S, roomId, messageId) ==
    IF Falsy(messageId) THEN S
    ELSE IoToRoomEmit(addResonance(S, messageId), roomId, "resonance",
                      [messageId |-> messageId,
                       count |-> MapGet(S.messageResonance, messageId, 0) + 1])

\* socket.on("copy")
OnCopy(S, c, messageId) ==
    CopyTracked(IoToRoomEmit(S, MapGet(S.socketToRoom, c, DEFAULT_ROOM_ID), "copy",
                             [color |-> IF Falsy(S.sockets[c].userColor) THEN "#7b5278"
                                        ELSE S.sockets[c].userColor,
                              handle |-> IF Falsy(S.sockets[c].userHandle) THEN Undef
                                         ELSE S.sockets[c].userHandle]),
                MapGet(S.socketToRoom, c, DEFAULT_ROOM_ID), messageId)

\* io.close(): every socket is closed, in connection order
RECURSIVE CloseUpTo(_, _)
CloseUpTo(S, c) == IF c = 0 THEN S ELSE CloseSocket(CloseUpTo(S, c - 1), c)

\* the timers that gracefulShutdown clears
ShutdownTimersCleared(S) ==
    [S EXCEPT !.moodDecayTimer = FALSE, !.silenceTimer = FALSE,
              !.typingStops = @ \ {[conn |-> c, due |-> S.typingTimers[c].due,
                                    roomId |-> S.typingTimers[c].roomId] :
                                      c \in DOMAIN S.typingTimers},
              !.typingTimers = EmptyMap,
              !.awayTimers = EmptyMap,
              !.dmCleanupTimers = EmptyMap]

\* gracefulShutdown(signal)
gracefulShutdown(S) ==
    IF S.isShuttingDown THEN S
    ELSE [CloseUpTo(ShutdownTimersCleared(
                        IoEmit([S EXCEPT !.isShuttingDown = TRUE], "server-shutdown",
                               [message |-> "Server is shutting down"])), MaxConns)
             EXCEPT !.exitTimer = S.now + FORCE_EXIT_MS]

\* the first socket other than c (in connection order) that has the handle targetLower,
\* compared in lower case, and is in the room; 0 when there is none
SummonTarget(S, c, targetLower, roomId) ==
    LET hits == {d \in OpenSockets(S) \ {c} :
                    /\ ~Falsy(S.sockets[d].userHandle)
                    /\ ToLowerCase(S.sockets[d].userHandle) = targetLower
                    /\ MapGet(S.socketToRoom, d, Undef) = roomId}
    IN  IF hits = {} THEN 0 ELSE CHOOSE d \in hits : \A e \in hits : d <= e

\* summon, once the target is looked up (0: not found)
SummonResolved(S, c, target, s) ==
    IF s = 0 THEN SocketEmit(S, c, "summon-failed", [target |-> target, reason |-> "not-found"])
    ELSE SocketEmit(SocketEmit(S, s, "summoned",
                               [byColor |-> S.sockets[c].userColor,
                                byHandle |-> S.sockets[c].userHandle]),
                    c, "summon-sent", [target |-> S.sockets[s].userHandle])

\* socket.on("summon")
OnSummon(S, c, target) ==
    IF Falsy(target) THEN S
    ELSE SummonResolved(S, c, target,
                        SummonTarget(S, c, Trim(ToLowerCase(target)),
                                     MapGet(S.socketToRoom, c, DEFAULT_ROOM_ID)))

(***************************************************************************)
(* The server after start-up, and the steps of the environment             *)
(***************************************************************************)
NoHistory == [message |-> <<>>, typing |-> <<>>, join |-> <<>>, createRoom |-> <<>>]
\* Date.now() when the server starts
StartTime == 1000000

\* the state when the server starts listening
Started ==
    [now |-> StartTime,
     sockets |-> [c \in Conns |-> NewSocket],
     adapter |-> [c \in Conns |-> {}],
     socketIdToIP |-> EmptyMap, socketFocused |-> EmptyMap, socketAway |-> EmptyMap,
     socketToRoom |-> EmptyMap,
     \* getOrCreateRoom(DEFAULT_ROOM_ID, { title: DEFAULT_ROOM_TITLE, secret: false })
     rooms |-> [r \in {DEFAULT_ROOM_ID} |->
                   NewRoom(DEFAULT_ROOM_ID, DEFAULT_ROOM_TITLE, FALSE, StartTime)],
     bannedIPs |-> {},
     rateLimits |-> EmptyMap,
     typingTimers |-> EmptyMap, typingStops |-> {}, awayTimers |-> EmptyMap,
     activeDMs |-> EmptyMap, dmCleanupTimers |-> EmptyMap,
     messageResonance |-> EmptyMap, resonanceTimers |-> {},
     \* startSilenceChecker(io), startMoodDecay(io)
     moodDecayTimer |-> TRUE, silenceTimer |-> TRUE,
     isShuttingDown |-> FALSE, exitTimer |-> 0, exited |-> FALSE,
     urlLastIndex |-> 0,
     msgSeq |-> 0,
     out |-> <<>>,
     last |-> [ev |-> "start", conn |-> 0, text |-> "", rate |-> "none"],
     passed |-> [c \in Conns |-> NoHistory]]

\* the variables hold the state S
Holds(S) ==
    /\ now = S.now /\ sockets = S.sockets /\ adapter = S.adapter
    /\ socketIdToIP = S.socketIdToIP /\ socketFocused = S.socketFocused
    /\ socketAway = S.socketAway /\ socketToRoom = S.socketToRoom
    /\ rooms = S.rooms /\ bannedIPs = S.bannedIPs /\ rateLimits = S.rateLimits
    /\ typingTimers = S.typingTimers /\ typingStops = S.typingStops
    /\ awayTimers = S.awayTimers
    /\ activeDMs = S.activeDMs /\ dmCleanupTimers = S.dmCleanupTimers
    /\ messageResonance = S.messageResonance /\ resonanceTimers = S.resonanceTimers
    /\ moodDecayTimer = S.moodDecayTimer /\ silenceTimer = S.silenceTimer
    /\ isShuttingDown = S.isShuttingDown /\ exitTimer = S.exitTimer
    /\ exited = S.exited
    /\ urlLastIndex = S.urlLastIndex /\ msgSeq = S.msgSeq
    /\ out = S.out /\ last = S.last /\ passed = S.passed

Init == Holds(Started)

\* a client connects from ip; socket ids are taken in order
Connect(c, ip) ==
    /\ sockets[c].state = "none"
    /\ \A d \in Conns : d < c => sockets[d].state # "none"
    /\ Commit(OnConnection(Begin(Cur, "connection", c, ip), c, ip))

\* the client closes the connection
Disconnect(c) ==
    /\ sockets[c].state = "open"
    /\ Commit(CloseSocket(Begin(Cur, "disconnect", c, ""), c))

Join(c, p, rnd) ==
    /\ sockets[c].state = "open"
    /\ Commit(OnJoin(Begin(Cur, "join", c, p.roomId), c, p, rnd))

Message(c, text, whisper) ==
    /\ sockets[c].state = "open"
    /\ Commit(OnMessage(Begin(Cur, "message", c, text), c, text, whisper))

Typing(c) ==
    /\ sockets[c].state = "open"
    /\ Commit(OnTyping(Begin(Cur, "typing", c, ""), c))

TypingStop(c) ==
    /\ sockets[c].state = "open"
    /\ Commit(OnTypingStop(Begin(Cur, "typing-stop", c, ""), c))

Ping(c) ==
    /\ sockets[c].state = "open"
    /\ Commit(OnPing(Begin(Cur, "ping", c, ""), c))

CreateRoom(c, title, secret) ==
    /\ sockets[c].state = "open"
    /\ Commit(OnCreateRoom(Begin(Cur, "create-room", c, title), c, title, secret))

ListRooms(c) ==
    /\ sockets[c].state = "open"
    /\ Commit(OnListRooms(Begin(Cur, "list-rooms", c, ""), c))

DeleteRoom(c, roomId) ==
    /\ sockets[c].state = "open"
    /\ Commit(OnDeleteRoom(Begin(Cur, "delete-room", c, roomId), c, roomId))

SwitchRoom(c, roomId) ==
    /\ sockets[c].state = "open"
    /\ Commit(OnSwitchRoom(Begin(Cur, "switch-room", c, roomId), c, roomId))

Dm(c, targetColor, targetSocketId, text) ==
    /\ sockets[c].state = "open"
    /\ Commit(OnDm(Begin(Cur, "dm", c, text), c, targetColor, targetSocketId, text))

Copy(c, messageId) ==
    /\ sockets[c].state = "open"
    /\ Commit(OnCopy(Begin(Cur, "copy", c, messageId), c, messageId))

\* a termination signal arrives
Signal(signal) ==
    /\ ~exited
    /\ Commit(gracefulShutdown(Begin(Cur, signal, 0, "")))

\* the cleanup timeout t of addResonance is due and fires
ResonanceDecay(t) ==
    /\ t \in resonanceTimers
    /\ now >= t.due
    /\ Commit(OnResonanceDecay(Begin(Cur, "resonance-decay", 0, t.messageId), t))

\* the process exits: when the servers have closed, or when the forced exit is due
Exit ==
    /\ isShuttingDown /\ ~exited
    /\ Commit([Begin(Cur, "exit", 0, "") EXCEPT !.exited = TRUE])

Summon(c, target) ==
    /\ sockets[c].state = "open"
    /\ Commit(OnSummon(Begin(Cur, "summon", c, target), c, target))

DmTyping(c, targetColor, targetSocketId) ==
    /\ sockets[c].state = "open"
    /\ Commit(OnDmTyping(Begin(Cur, "dm-typing", c, ""), c, targetColor, targetSocketId))

Reveal(c, p) ==
    /\ sockets[c].state = "open"
    /\ Commit(OnReveal(Begin(Cur, "reveal", c, ""), c, p))

Focus(c, focused) ==
    /\ sockets[c].state = "open"
    /\ Commit(OnFocus(Begin(Cur, IF focused THEN "focus" ELSE "blur", c, ""), c, focused))

Away(c) ==
    /\ sockets[c].state = "open"
    /\ Commit(OnAway(Begin(Cur, "away", c, ""), c))

Back(c) ==
    /\ sockets[c].state = "open"
    /\ Commit(OnBack(Begin(Cur, "back", c, ""), c))

\* the times at which a pending timeout is due
DueTimes ==
    {t.due : t \in typingStops} \cup {t.due : t \in resonanceTimers}
        \cup ({exitTimer} \ {0})
        \cup {dmCleanupTimers[k].due : k \in DOMAIN dmCleanupTimers}
        \cup {awayTimers[c].due : c \in {d \in DOMAIN awayTimers : awayTimers[d].due > 0}}

\* d milliseconds pass; a timeout that is due fires before time moves past it
Tick(d) ==
    /\ \A due \in DueTimes : now + d <= due
    /\ Commit([Begin(Cur, "tick", 0, "") EXCEPT !.now = @ + d])

\* the typing timeout of c is due and fires
TypingTimeout(c) ==
    \E t \in typingStops :
        /\ t.conn = c
        /\ now >= t.due
        /\ Commit(OnTypingTimeout(Begin(Cur, "typing-timeout", c, ""), t))

\* the away timeout of c is due and fires
AwayTimeout(c) ==
    /\ c \in DOMAIN awayTimers
    /\ awayTimers[c].due > 0
    /\ now >= awayTimers[c].due
    /\ Commit(OnAwayTimeout(Begin(Cur, "away-timeout", c, ""), c))

\* the next time after t at which the decay interval, set when the server starts, fires
NextDecayAt(t) ==
    StartTime + ((t - StartTime) \div MOOD_DECAY_INTERVAL_MS + 1) * MOOD_DECAY_INTERVAL_MS

\* time passes until the decay interval fires, and its callback runs
MoodDecay ==
    /\ moodDecayTimer
    /\ \A due \in DueTimes : NextDecayAt(now) <= due
    /\ Commit(OnMoodDecay([Begin(Cur, "mood-decay", 0, "") EXCEPT !.now = NextDecayAt(now)]))

\* the next time after t at which the silence interval, set when the server starts, fires
NextSweepAt(t) ==
    StartTime + ((t - StartTime) \div SILENCE_INTERVAL_MS + 1) * SILENCE_INTERVAL_MS

\* time passes until the silence interval fires, and its callback runs
SilenceSweep ==
    /\ silenceTimer
    /\ \A due \in DueTimes : NextSweepAt(now) <= due
    /\ Commit(OnSilenceSweep([Begin(Cur, "silence-sweep", 0, "")
                                 EXCEPT !.now = NextSweepAt(now)]))

\* the expiry timeout of the DM pair dmKey is due and fires
DmExpire(dmKey) ==
    /\ dmKey \in DOMAIN dmCleanupTimers
    /\ now >= dmCleanupTimers[dmKey].due
    /\ Commit(OnDmExpire(Begin(Cur, "dm-expire", 0, dmKey), dmKey))

(***************************************************************************)
(* Spec: clients connect, join a room and talk                             *)
(***************************************************************************)
NoRandom == [color |-> "#cccccc", sigil |-> "spiral"]
ChatJoins ==
    [color : {"#aaaaaa"}, handle : {Undef}, tag : {Undef}, sigil : {"eye"},
     roomId : {Undef, "Den"}]
\* the address the c-th client connects from
HomeIP(c) == IF c = 1 THEN "ip1" ELSE "ip2"

Next ==
    \/ \E c \in Conns : Connect(c, HomeIP(c))
    \/ \E c \in Conns, p \in ChatJoins : Len(passed[c].join) < MaxJoins /\ Join(c, p, NoRandom)
    \/ \E c \in DOMAIN socketToRoom : msgSeq < MaxMsgs /\ Message(c, "hi", FALSE)

Spec == Init /\ [][Next]_vars

(***************************************************************************)
(* SpecRooms: clients from one or two addresses connect, join, switch      *)
(* rooms, talk and leave                                                   *)
(***************************************************************************)
ChatSwitches == {"main", "den"}
RoomTexts == {"hi", "yo"}

\* no room remembers MaxLeaves departures yet
FewLeaves == \A r \in DOMAIN rooms : Len(rooms[r].presenceGhosts) < MaxLeaves

NextRooms ==
    \/ \E c \in Conns : \E ip \in IPsOf(c) : Connect(c, ip)
    \/ \E c \in Conns : Disconnect(c)
    \/ \E c \in Conns, p \in ChatJoins : Len(passed[c].join) < MaxJoins /\ Join(c, p, NoRandom)
    \/ \E c \in DOMAIN socketToRoom, t \in RoomTexts : msgSeq < MaxRoomMsgs /\ Message(c, t, FALSE)
    \/ \E c \in Conns, r \in ChatSwitches : FewLeaves /\ SwitchRoom(c, r)

SpecRooms == Init /\ [][NextRooms]_vars

(***************************************************************************)
(* The rolling message buffer                                              *)
(***************************************************************************)
Ids(messages) == [i \in 1..Len(messages) |-> messages[i].id]
BufferIds(rs, r) == IF r \in DOMAIN rs THEN Ids(rs[r].messages) ELSE <<>>

\* C1: in every reachable state every room's message buffer holds at most MAX_MESSAGES
\* entries, and a step changes a buffer only by a message event appending its message
\* at the end, dropping exactly the oldest entry when the buffer was full and keeping
\* the others in their order.
C1_BufferIsBoundedFifo ==
    /\ [](\A r \in DOMAIN rooms : Len(rooms[r].messages) <= MAX_MESSAGES)
    /\ [][\A r \in DOMAIN rooms' :
            \/ BufferIds(rooms', r) = BufferIds(rooms, r)
            \/ /\ last'.ev = "message"
               /\ BufferIds(rooms', r) =
                      (IF Len(BufferIds(rooms, r)) < MAX_MESSAGES
                       THEN BufferIds(rooms, r) ELSE Tail(BufferIds(rooms, r)))
                          \o <<msgSeq'>>]_vars

\* a message was just accepted into a full buffer and the oldest entry is gone
C1_EvictionHappened ==
    /\ last.ev = "message"
    /\ \E r \in DOMAIN rooms :
          /\ Len(rooms[r].messages) = MAX_MESSAGES
          /\ rooms[r].messages[MAX_MESSAGES].id = msgSeq
          /\ msgSeq > MAX_MESSAGES
          /\ \A i \in 1..MAX_MESSAGES : rooms[r].messages[i].id = msgSeq - MAX_MESSAGES + i

(***************************************************************************)
(* What a joiner is sent                                                   *)
(***************************************************************************)
\* the same state with the text of every buffered message replaced by another text
OtherText(t) == IF t = "hi" THEN "yo" ELSE "hi"
Retexted(S) ==
    [S EXCEPT !.rooms =
        [r \in DOMAIN S.rooms |->
            [S.rooms[r] EXCEPT !.messages =
                [i \in DOMAIN S.rooms[r].messages |->
                    [S.rooms[r].messages[i] EXCEPT !.text = OtherText(@)]]]]]
\* the events of the emissions o that reach connection c, in order
DeliveredTo(o, c) ==
    LET mine == SelectSeq(o, LAMBDA e : c \in e.to)
    IN  [k \in DOMAIN mine |-> [ev |-> mine[k].ev, data |-> mine[k].data]]
\* what the step that handled the event `last` from the state S sends to its connection
Snapshot(S, lst) ==
    IF lst.ev = "switch-room"
    THEN DeliveredTo(OnSwitchRoom(Begin(S, lst.ev, lst.conn, lst.text), lst.conn, lst.text).out,
                     lst.conn)
    ELSE DeliveredTo(OnJoin(Begin(S, lst.ev, lst.conn, lst.text), lst.conn,
                            [color |-> "#aaaaaa", handle |-> Undef, tag |-> Undef,
                             sigil |-> "eye", roomId |-> lst.text], NoRandom).out,
                     lst.conn)

\* C7: what a join or switch-room step sends to the connection that joins is the same
\* when the step is taken from the state that differs only in the text of the messages
\* buffered in the rooms.
C7_SnapshotIgnoresBufferedText ==
    [][last'.ev \in {"join", "switch-room"} =>
          /\ DeliveredTo(out', last'.conn) = Snapshot(Cur, last')
          /\ Snapshot(Cur, last') = Snapshot(Retexted(Cur), last')]_vars

(***************************************************************************)
(* Presence                                                                *)
(***************************************************************************)
\* C10: every presence value a step broadcasts equals the number of distinct client
\* addresses of the connections in the room it is broadcast to.
C10_PresenceCountsDistinctIPs ==
    \A k \in DOMAIN out :
        out[k].ev = "presence" =>
            out[k].data.presence = Cardinality({sockets[c].ip : c \in out[k].to})

(***************************************************************************)
(* SpecMod: clients connect, join the default room with or without a       *)
(* handle, and send plain texts, links and slurs                           *)
(***************************************************************************)
\* the join payload of connection c: the first client has no handle, the others have one
ModJoinOf(c) ==
    [color |-> "#aaaaaa", handle |-> IF c = 1 THEN Undef ELSE "ann", tag |-> Undef,
     sigil |-> "eye", roomId |-> Undef]
ModTexts == {"hi", "http://x.com", "you tard"}
\* the number of message events of the connections 1..c that passed the rate limiter
RECURSIVE SentUpTo(_)
SentUpTo(c) == IF c = 0 THEN 0 ELSE Len(passed[c].message) + SentUpTo(c - 1)

NextMod ==
    \/ \E c \in Conns : \E ip \in IPsOf(c) : Connect(c, ip)
    \/ \E c \in Conns : Len(passed[c].join) < MaxJoins /\ Join(c, ModJoinOf(c), NoRandom)
    \/ \E c \in Conns, t \in ModTexts :
          SentUpTo(MaxConns) < MaxModMsgs /\ Message(c, t, FALSE)

SpecMod == Init /\ [][NextMod]_vars

\* the text has a URL in it: URL_REGEX matches it from its start
HasUrl(t) == Moderated(t, 0).reason = "no-links"
\* the step handled a message that passed the rate limiter and that moderation, with
\* URL_REGEX as the step found it, flagged as bigotry
FlaggedStep(lst, lastIndex) ==
    /\ lst.ev = "message" /\ lst.rate = "passed"
    /\ Moderated(lst.text, lastIndex).isBigotry

\* C2: a message event whose text contains a URL is not sent as a message to any
\* connection.
C2_LinkIsNeverBroadcast ==
    (last.ev = "message" /\ HasUrl(last.text)) =>
        \A k \in DOMAIN out : out[k].ev = "message" => out[k].to = {}

\* C5: a step that handles a message flagged as bigotry broadcasts the masked text to
\* the sender's room as a message with flagged = TRUE and a handle, adds the sender's
\* address to bannedIPs and closes the sender's connection.
C5_BigotryIsRevealedAndBanned ==
    [][FlaggedStep(last', urlLastIndex) =>
          /\ \E k \in DOMAIN out' :
                /\ out'[k].ev = "message"
                /\ out'[k].to = Members(Cur, MapGet(socketToRoom, last'.conn, DEFAULT_ROOM_ID))
                /\ out'[k].data.flagged
                /\ out'[k].data.text = maskBigotry(last'.text)
                /\ out'[k].data.handle \notin {Undef, ""}
          /\ sockets[last'.conn].ip \in bannedIPs'
          /\ sockets'[last'.conn].state = "closed"]_vars

\* C6: bannedIPs never loses an address; a connection from a banned address is sent
\* banned and nothing else, is closed, and leaves every other part of the state as it
\* was; a closed connection never changes again, so it handles no event.
C6_BannedAddressStaysOut ==
    /\ [][bannedIPs \subseteq bannedIPs']_vars
    /\ [][(last'.ev = "connection" /\ last'.text \in bannedIPs) =>
            /\ out' = <<[to |-> {last'.conn}, ev |-> "banned",
                         data |-> [reason |-> "You have been banned."]]>>
            /\ sockets' = [sockets EXCEPT ![last'.conn] =
                              [NewSocket EXCEPT !.state = "closed", !.ip = last'.text]]
            /\ UNCHANGED <<adapter, socketIdToIP, socketFocused, socketAway, socketToRoom,
                           rooms, bannedIPs, rateLimits, typingTimers, typingStops,
                           awayTimers, activeDMs, dmCleanupTimers, messageResonance,
                           resonanceTimers, moodDecayTimer, silenceTimer, isShuttingDown,
                           exitTimer, exited, urlLastIndex, msgSeq, passed>>]_vars
    /\ [][\A c \in Conns : sockets[c].state = "closed" =>
            /\ sockets'[c] = sockets[c]
            /\ last'.conn # c
            /\ adapter'[c] = {}
            /\ c \notin DOMAIN socketToRoom' \cup DOMAIN rateLimits' \cup DOMAIN socketIdToIP']_vars

\* a client has just connected from an address banned earlier and was turned away,
\* the address having been banned when an earlier connection from it sent a slur
C6_BannedReconnect ==
    /\ last.ev = "connection" /\ last.text \in bannedIPs
    /\ sockets[last.conn].state = "closed"
    /\ \E k \in DOMAIN out : out[k].ev = "banned"
    /\ \E d \in Conns : d < last.conn /\ sockets[d].state = "closed" /\ sockets[d].ip = last.text

(***************************************************************************)
(* SpecRate: a client that has sent a burst of events goes on sending      *)
(***************************************************************************)
\* the server handles the event e of a script
Handle(S, e) ==
    CASE e.ev = "connection" ->
             OnConnection(Begin(S, "connection", e.conn, e.text), e.conn, e.text)
      [] e.ev = "join" ->
             OnJoin(Begin(S, "join", e.conn, Undef), e.conn, ModJoinOf(e.conn), NoRandom)
      [] e.ev = "typing" -> OnTyping(Begin(S, "typing", e.conn, ""), e.conn)
      [] e.ev = "message" -> OnMessage(Begin(S, "message", e.conn, e.text), e.conn, e.text, FALSE)
      [] e.ev = "tick" -> [Begin(S, "tick", 0, "") EXCEPT !.now = @ + 1000]
      [] e.ev = "create-room" ->
             OnCreateRoom(Begin(S, "create-room", e.conn, e.text), e.conn, e.text, FALSE)
      [] e.ev = "wait" -> [Begin(S, "tick", 0, "") EXCEPT !.now = @ + RATE_CREATE_WINDOW]
\* the state after the server has handled the events a..b of the script, one by one in
\* their order, from the state S (the first half is computed before the second starts)
RECURSIVE Replay(_, _, _, _)
Replay(S, script, a, b) ==
    IF a > b THEN S
    ELSE IF a = b THEN Handle(S, script[a])
    ELSE LET half == Replay(S, script, a, (a + b) \div 2)
         IN  IF half.now >= S.now THEN Replay(half, script, (a + b) \div 2 + 1, b) ELSE S

\* n times the event e
Times(n, e) == [i \in 1..n |-> e]
\* the script of connection 1: it connects and joins, types as fast as the typing cap
\* allows for ScriptRounds seconds, then types a little more and sends all the messages
\* the message cap allows but one; ScriptSlack more events fit into its total window
ScriptRounds == (RATE_TOTAL_MAX \div RATE_TYPING_MAX) - 2
ScriptMessages == RATE_MESSAGE_MAX - 1
ScriptTypings ==
    RATE_TOTAL_MAX - ScriptSlack - 1 - ScriptRounds * RATE_TYPING_MAX - ScriptMessages
Ev(ev, text) == [ev |-> ev, conn |-> 1, text |-> text]
RECURSIVE Rounds(_)
Rounds(n) ==
    IF n = 0 THEN <<>>
    ELSE Rounds(n - 1) \o Times(RATE_TYPING_MAX, Ev("typing", "")) \o <<Ev("tick", "")>>
BurstScript ==
    <<Ev("connection", "ip1"), Ev("join", "")>> \o Rounds(ScriptRounds)
        \o Times(ScriptTypings, Ev("typing", "")) \o Times(ScriptMessages, Ev("message", "hi"))
AfterBurst == Replay(Started, BurstScript, 1, Len(BurstScript))

InitRate == Holds(AfterBurst)

\* the events of connection c that passed the rate limiter
Accepted(c) ==
    Len(passed[c].message) + Len(passed[c].typing) + Len(passed[c].join)
        + Len(passed[c].createRoom)
RECURSIVE AcceptedUpTo(_)
AcceptedUpTo(c) == IF c = 0 THEN 0 ELSE Accepted(c) + AcceptedUpTo(c - 1)
\* the model lets the rate limiter pass MaxExtra events after the burst
Sending == AcceptedUpTo(MaxConns) < RATE_TOTAL_MAX - ScriptSlack + MaxExtra

NextRate ==
    \/ \E c \in Conns : Connect(c, HomeIP(c))
    \/ \E c \in Conns : Sending /\ Join(c, ModJoinOf(c), NoRandom)
    \/ \E c \in Conns : Sending /\ Message(c, "hi", FALSE)
    \/ \E c \in Conns : Sending /\ Typing(c)
    \/ \E c \in Conns : Sending /\ CreateRoom(c, "Den", FALSE)
    \/ \E c \in Conns : Sending /\ DmTyping(c, "#aaaaaa", 0)
    \/ now < AfterBurst.now + MaxTicks * 1000 /\ Tick(1000)

SpecRate == InitRate /\ [][NextRate]_vars

\* the number of the time stamps that are less than windowMs old at time t
Recent(stamps, t, windowMs) == Len(PurgeOld(stamps, t, windowMs))
\* the events of connection c that passed the rate limiter less than RATE_TOTAL_WINDOW ago
RecentTotal(c) ==
    Recent(passed[c].message, now, RATE_TOTAL_WINDOW)
        + Recent(passed[c].typing, now, RATE_TOTAL_WINDOW)
        + Recent(passed[c].join, now, RATE_TOTAL_WINDOW)
        + Recent(passed[c].createRoom, now, RATE_TOTAL_WINDOW)
\* connection c has RATE_MESSAGE_MAX accepted messages less than RATE_MESSAGE_WINDOW old
MessageCapReached(c) == Recent(passed[c].message, now, RATE_MESSAGE_WINDOW) >= RATE_MESSAGE_MAX
\* what of a room the message handler writes: buffer, sentiment history, activity
Talk(room) ==
    [messages |-> room.messages, sentiment |-> room.sentiment,
     lastActivity |-> room.lastActivity, lastMessageTs |-> room.lastMessageTs,
     silenceState |-> room.silenceState]
\* the step handles a message event of a connection that has reached the message cap
OverCapMessage == last'.ev = "message" /\ MessageCapReached(last'.conn)
\* the reply to a refused message
RateLimitedReply(lst) ==
    [to |-> {lst.conn}, ev |-> "rate-limited",
     data |-> [event |-> "message", reason |-> lst.rate]]

\* C3: of the message events of one connection that pass the rate limiter, any
\* RATE_MESSAGE_MAX + 1 span at least RATE_MESSAGE_WINDOW; a message event of a
\* connection that has RATE_MESSAGE_MAX accepted messages in the window is refused, the
\* sender is sent rate-limited for the event message first, no message id is given out
\* and no room changes its buffer, sentiment history or activity; when the refusal is
\* an ordinary one nothing else changes, and when it is for abuse the sender is closed.
C3_SixteenthMessageIsRefused ==
    /\ [](\A c \in Conns :
            \A i \in 1..(Len(passed[c].message) - RATE_MESSAGE_MAX) :
                passed[c].message[i + RATE_MESSAGE_MAX] - passed[c].message[i]
                    >= RATE_MESSAGE_WINDOW)
    /\ [][OverCapMessage =>
            /\ last'.rate \in {"rate-limited", "abuse"}
            /\ out' # <<>> /\ out'[1] = RateLimitedReply(last')
            /\ \A k \in DOMAIN out' : out'[k].ev # "message"
            /\ msgSeq' = msgSeq
            /\ DOMAIN rooms' = DOMAIN rooms
            /\ \A r \in DOMAIN rooms : Talk(rooms'[r]) = Talk(rooms[r])
            /\ last'.rate = "rate-limited" =>
                  /\ out' = <<RateLimitedReply(last')>>
                  /\ UNCHANGED <<rooms, sockets, adapter, socketToRoom>>
            /\ last'.rate = "abuse" => sockets'[last'.conn].state = "closed"]_vars

\* C3 as stated: a message event over the cap is refused, the sender is sent
\* rate-limited for the event message, and no room changes.
C3_RefusedMessageChangesNoRoom ==
    [][OverCapMessage =>
          /\ last'.rate # "passed"
          /\ out' # <<>> /\ out'[1] = RateLimitedReply(last')
          /\ rooms' = rooms]_vars

\* a message over the message cap has just been refused as rate-limited
C3_SixteenthRefused ==
    /\ last.ev = "message" /\ last.rate = "rate-limited"
    /\ Len(passed[last.conn].message) = RATE_MESSAGE_MAX
    /\ MessageCapReached(last.conn)
    /\ out = <<RateLimitedReply(last)>>

\* the events the handlers put to the rate limiter
RatedEvents == {"join", "message", "typing", "create-room", "dm-typing"}

\* C4: a step that handles a rate-limited event of a connection that already has
\* RATE_TOTAL_MAX accepted events less than RATE_TOTAL_WINDOW old closes the connection.
C4_AbuseAlwaysDisconnects ==
    [][(last'.ev \in RatedEvents /\ RecentTotal(last'.conn) >= RATE_TOTAL_MAX) =>
          sockets'[last'.conn].state = "closed"]_vars

(***************************************************************************)
(* SpecDM: clients join a room, send direct messages, move to the default  *)
(* room and delete the room they left, while time passes                   *)
(***************************************************************************)
\* the join payload of connection c: the first client is #aaaaaa, the others #bbbbbb
DmJoinOf(c) ==
    [color |-> IF c = 1 THEN "#aaaaaa" ELSE "#bbbbbb", handle |-> Undef, tag |-> Undef,
     sigil |-> "eye", roomId |-> "Den"]
\* the targets of a dm: a color, or a socket id
DmTargets == {[color |-> "#aaaaaa", id |-> 0], [color |-> Undef, id |-> 2]}
DmTickMs == DM_EXPIRY_MS \div 2

NextDM ==
    \/ \E c \in Conns : Connect(c, HomeIP(c))
    \/ \E c \in Conns : Len(passed[c].join) < MaxJoins /\ Join(c, DmJoinOf(c), NoRandom)
    \/ \E c \in DOMAIN socketToRoom, t \in DmTargets : Dm(c, t.color, t.id, "psst")
    \/ \E c \in DOMAIN socketToRoom : FewLeaves /\ SwitchRoom(c, "main")
    \/ \E c \in DOMAIN socketToRoom : DeleteRoom(c, "den")
    \/ /\ DOMAIN dmCleanupTimers # {}
       /\ now < StartTime + MaxDmTicks * DmTickMs
       /\ Tick(DmTickMs)
    \/ \E k \in DOMAIN dmCleanupTimers : DmExpire(k)

SpecDM == Init /\ [][NextDM]_vars

(***************************************************************************)
(* SpecTalk: clients connect, join a room or not, send direct messages and *)
(* move to the default room                                                *)
(***************************************************************************)
NextTalk ==
    \/ \E c \in Conns : Connect(c, HomeIP(c))
    \/ \E c \in Conns : Len(passed[c].join) < MaxJoins /\ Join(c, DmJoinOf(c), NoRandom)
    \/ \E c \in Conns, t \in DmTargets : Dm(c, t.color, t.id, "psst")
    \/ \E c \in DOMAIN socketToRoom : FewLeaves /\ SwitchRoom(c, "main")

SpecTalk == Init /\ [][NextTalk]_vars

\* the emissions of the event ev among the emissions o
Emitted(o, ev) == SelectSeq(o, LAMBDA e : e.ev = ev)
\* the room the handlers take as the room of connection c
RoomOf(c) == MapGet(socketToRoom, c, DEFAULT_ROOM_ID)
\* color and handle of connection c
Named(c) == [color |-> sockets[c].userColor, handle |-> sockets[c].userHandle]
\* the step delivers a dm of connection c to connection target: dm-received with the
\* text to the sender, then to the target, then crosstalk without text to the room
DmDelivered(c, target) ==
    /\ Len(out') = 3
    /\ out'[1].ev = "dm-received" /\ out'[1].to = {c}
    /\ out'[2].ev = "dm-received" /\ out'[2].to = {target}
    /\ out'[1].data = out'[2].data
    /\ out'[1].data.text = last'.text
    /\ out'[1].data.targetSocketId = target
    /\ out'[3].ev = "crosstalk"
    /\ out'[3].to = {d \in Conns : RoomOf(c) \in adapter[d]}
    /\ out'[3].data = [participants |-> <<Named(c), Named(target)>>, ts |-> now]

\* C8: a step that handles a dm emits nothing, or dm-failed to the sender, or it sends
\* dm-received with the text to the sender and to a recipient in the sender's room only
\* and crosstalk to every connection in the sender's room, the crosstalk naming color
\* and handle of both and carrying no text.
C8_DmIsPrivateCrosstalkIsPublic ==
    [][last'.ev = "dm" =>
          \/ out' = <<>>
          \/ out' = <<[to |-> {last'.conn}, ev |-> "dm-failed",
                       data |-> [reason |-> "User not in room"]]>>
          \/ \E target \in Conns :
                /\ sockets[target].state = "open"
                /\ MapGet(socketToRoom, target, Undef) = RoomOf(last'.conn)
                /\ DmDelivered(last'.conn, target)]_vars

\* a dm was just delivered, and a connection in the room got the crosstalk but not the
\* text
C8_BystanderSeesCrosstalkOnly ==
    /\ last.ev = "dm" /\ Len(out) = 3
    /\ \E d \in Conns :
          /\ d \in out[3].to /\ out[3].ev = "crosstalk"
          /\ \A k \in {1, 2} : out[k].ev = "dm-received" /\ d \notin out[k].to

\* the DM pair k left active tracking in the step
PairLeft(k) == k \in DOMAIN activeDMs /\ k \notin DOMAIN activeDMs'
\* the step is the expiry of the pair k: its timer was due, and exactly one
\* crosstalk-ended goes to the room of the pair
ExpiryOf(k) ==
    /\ last'.ev = "dm-expire" /\ last'.text = k
    /\ now = activeDMs[k].lastActivity + DM_EXPIRY_MS
    /\ out' = <<[to |-> {d \in Conns : dmCleanupTimers[k].roomId \in adapter[d]},
                 ev |-> "crosstalk-ended",
                 data |-> [participants |-> activeDMs[k].participants]]>>
\* the step is a delete-room of the room of the pair k, which ends no crosstalk
PurgeOf(k) ==
    /\ last'.ev = "delete-room"
    /\ dmCleanupTimers[k].roomId = getRoomId(last'.text)
    /\ dmCleanupTimers[k].roomId \notin DOMAIN rooms'
    /\ Emitted(out', "crosstalk-ended") = <<>>

\* C9: every active DM pair has one expiry timer, due DM_EXPIRY_MS after the last DM of
\* the pair in either direction, and time does not pass it; a delivered dm makes the
\* pair of its room and its two colors active with the timer started anew;
\* crosstalk-ended is emitted only by the expiry of a pair, once; a pair leaves active
\* tracking only by its expiry or when its room is deleted.
C9_PairExpiresOnceAfterQuiet ==
    /\ [](/\ DOMAIN activeDMs = DOMAIN dmCleanupTimers
           /\ \A k \in DOMAIN activeDMs :
                 /\ dmCleanupTimers[k].due = activeDMs[k].lastActivity + DM_EXPIRY_MS
                 /\ now <= dmCleanupTimers[k].due
                 /\ k = getDMKey(activeDMs[k].participants[1], activeDMs[k].participants[2],
                                 dmCleanupTimers[k].roomId)
                 /\ k = getDMKey(activeDMs[k].participants[2], activeDMs[k].participants[1],
                                 dmCleanupTimers[k].roomId))
    /\ [][(last'.ev = "dm" /\ Len(out') = 3) =>
            LET k == getDMKey(out'[1].data.color, out'[1].data.targetColor, RoomOf(last'.conn))
            IN  /\ k \in DOMAIN activeDMs'
                /\ activeDMs'[k].lastActivity = now
                /\ dmCleanupTimers'[k].due = now + DM_EXPIRY_MS
                /\ \A j \in DOMAIN activeDMs \ {k} :
                      j \in DOMAIN activeDMs' /\ dmCleanupTimers'[j] = dmCleanupTimers[j]]_vars
    /\ [][Emitted(out', "crosstalk-ended") # <<>> =>
            \E k \in DOMAIN activeDMs : ExpiryOf(k) /\ PairLeft(k)]_vars
    /\ [][\A k \in DOMAIN activeDMs : PairLeft(k) => ExpiryOf(k) \/ PurgeOf(k)]_vars

\* C9 as stated: a pair leaves active tracking only by its expiry, with one
\* crosstalk-ended.
C9_PairLeavesOnlyByExpiry ==
    [][\A k \in DOMAIN activeDMs : PairLeft(k) => ExpiryOf(k)]_vars

\* the pair of the one client there is, which has stayed in its room, has just expired:
\* time passes only while a pair is active, so the pair was active from the start, its
\* timer was started anew by a later DM, and it expired DM_EXPIRY_MS after that DM
C9_ExpiredAfterRestart ==
    /\ last.ev = "dm-expire"
    /\ Len(Emitted(out, "crosstalk-ended")) = 1
    /\ last.text \notin DOMAIN activeDMs
    /\ now > StartTime + DM_EXPIRY_MS
    /\ \A c \in Conns \ {1} : sockets[c].state = "none"
    /\ MapGet(socketToRoom, 1, Undef) = "den"
    /\ rooms["den"].presenceGhosts = <<>>


(***************************************************************************)
(* SpecCap: the registry is two rooms short of its cap; clients create,    *)
(* enter and delete rooms and talk                                         *)
(***************************************************************************)
\* the script of connection 1: it connects and creates rooms r1, r2, ... as fast as the
\* create-room cap allows, until the registry is two rooms short of MAX_ROOMS
FillRounds == (MAX_ROOMS - 2) \div RATE_CREATE_MAX
RECURSIVE FillScript(_)
FillScript(n) ==
    IF n = 0 THEN <<Ev("connection", "ip1")>>
    ELSE FillScript(n - 1)
             \o [i \in 1..RATE_CREATE_MAX |->
                    Ev("create-room", "r" \o IntToStr((n - 1) * RATE_CREATE_MAX + i))]
             \o <<Ev("wait", "")>>
AlmostFull == Replay(Started, FillScript(FillRounds), 1, Len(FillScript(FillRounds)))
InitCap == Holds(AlmostFull)

CapTitles == {"Den", "Lair"}

NextCap ==
    \/ \E c \in Conns : Connect(c, HomeIP(c))
    \/ \E c \in Conns, p \in ChatJoins : Len(passed[c].join) < MaxJoins /\ Join(c, p, NoRandom)
    \/ \E c \in Conns, t \in CapTitles : CreateRoom(c, t, FALSE)
    \/ \E c \in Conns : FewLeaves /\ SwitchRoom(c, "den")
    \/ \E c \in Conns : DeleteRoom(c, "den")
    \/ \E c \in Conns : msgSeq < MaxRoomMsgs /\ Message(c, "hi", FALSE)

SpecCap == InitCap /\ [][NextCap]_vars

\* the reply of the last step to its sender says that the room was not deleted, for reason
DeleteRefused(o, reason) ==
    \E k \in DOMAIN o : o[k].ev = "room-delete-failed" /\ o[k].data.reason = reason

\* C11: delete-room never removes a room that has a connection in it (the request fails
\* with the must-be-empty reason) and never removes the default room (the request fails
\* with the cannot-delete-main-room reason); a room leaves the registry only by a
\* delete-room for it, when no connection is in it and it is not the default room
C11_OnlyEmptyRoomsAreDeleted ==
    [][\A r \in DOMAIN rooms :
          /\ (last'.ev = "delete-room" /\ getRoomId(last'.text) = r /\ r = DEFAULT_ROOM_ID)
                 => r \in DOMAIN rooms' /\ DeleteRefused(out', "Cannot delete the main room")
          /\ (/\ last'.ev = "delete-room" /\ getRoomId(last'.text) = r
              /\ r # DEFAULT_ROOM_ID /\ \E c \in Conns : r \in adapter[c])
                 => r \in DOMAIN rooms' /\ DeleteRefused(out', "Room must be empty to delete")
          /\ r \notin DOMAIN rooms'
                 => /\ last'.ev = "delete-room" /\ getRoomId(last'.text) = r
                    /\ r # DEFAULT_ROOM_ID
                    /\ \A c \in Conns : r \notin adapter[c]]_vars

\* C12: the registry never holds more than MAX_ROOMS rooms
C12_RoomCountNeverExceedsCap == Cardinality(DOMAIN rooms) <= MAX_ROOMS


(***************************************************************************)
(* SpecReveal: clients of two colors talk; one changes rooms and reveals   *)
(***************************************************************************)
RevealJoinOf(c) ==
    [color |-> IF c = 1 THEN "#aaaaaa" ELSE "#bbbbbb", handle |-> Undef, tag |-> Undef,
     sigil |-> "eye", roomId |-> "Den"]
\* a reveal payload the validators accept, and one they refuse field by field
RevealPayloads ==
    {[handle |-> "Ann", tag |-> "witch", sigil |-> "cross"],
     [handle |-> "bad!", tag |-> "two words", sigil |-> "star"]}

\* connection 1 is the one that changes rooms and reveals itself; clients join before
\* the talk starts
NextReveal ==
    \/ \E c \in Conns : Connect(c, HomeIP(c))
    \/ \E c \in Conns :
          Len(passed[c].join) < MaxJoins /\ msgSeq = 0 /\ Join(c, RevealJoinOf(c), NoRandom)
    \/ \E c \in Conns : msgSeq < MaxMsgs /\ Message(c, "hi", FALSE)
    \/ FewLeaves /\ SwitchRoom(1, "main")
    \/ \E p \in RevealPayloads : Reveal(1, p)

SpecReveal == Init /\ [][NextReveal]_vars

\* the message m carrying the identity of the socket sock
Signed(m, sock) ==
    [m EXCEPT !.handle = sock.userHandle, !.tag = sock.userTag, !.sigil = sock.userSigil]

\* what a reveal step does to the buffers: the messages of the caller's color (the
\* default color for a caller without one) carry the caller's new handle, tag and sigil
\* and are otherwise as before, in the caller's room (in every room, if everywhere); all
\* other messages, and all else of every room, are as before; no message comes or goes
RevealStep(everywhere) ==
    last'.ev = "reveal" =>
        LET c == last'.conn
            roomId == MapGet(socketToRoom, c, DEFAULT_ROOM_ID)
        IN  /\ DOMAIN rooms' = DOMAIN rooms
            /\ \A r \in DOMAIN rooms :
                  /\ [rooms'[r] EXCEPT !.messages = <<>>] = [rooms[r] EXCEPT !.messages = <<>>]
                  /\ Len(rooms'[r].messages) = Len(rooms[r].messages)
                  /\ \A k \in DOMAIN rooms[r].messages :
                        rooms'[r].messages[k] =
                            IF /\ everywhere \/ r = roomId
                               /\ rooms[r].messages[k].color = ColorOf(Cur, c)
                            THEN Signed(rooms[r].messages[k], sockets'[c])
                            ELSE rooms[r].messages[k]

\* C13, as amended: a reveal rewrites handle, tag and sigil on the messages buffered in
\* the caller's current room that share the caller's color, changes no other field, no
\* message of another color and no message buffered in another room, and brings no
\* evicted message back
C13_RevealRewritesOwnMessagesInRoom == [][RevealStep(FALSE)]_vars

\* C13 as stated: a reveal rewrites handle, tag and sigil on all the buffered messages
\* that share the caller's color, in whatever room they are buffered
C13_RevealRewritesOwnMessagesEverywhere == [][RevealStep(TRUE)]_vars

\* a client has just revealed itself in a room whose buffer is full and has evicted a
\* message: its own messages there carry its handle, the other color's do not
C13_RevealedInFullBuffer ==
    /\ last.ev = "reveal"
    /\ msgSeq > MAX_MESSAGES
    /\ LET r == MapGet(socketToRoom, last.conn, DEFAULT_ROOM_ID)
           ms == rooms[r].messages
       IN  /\ Len(ms) = MAX_MESSAGES
           /\ \A q \in DOMAIN rooms \ {r} : rooms[q].messages = <<>>
           /\ \E j, k \in DOMAIN ms :
                 /\ ms[j].color = ColorOf(Cur, last.conn) /\ ms[j].handle = "Ann"
                 /\ ms[k].color # ColorOf(Cur, last.conn) /\ ms[k].handle = Undef


\* C14: for a connection that has connected but not joined (only join sets its entry in
\* socketIdToIP), every inbound event other than join changes no room, registry or
\* session state and sends nothing to any other connection
C14_NothingHappensBeforeJoin ==
    [][(/\ last'.conn \in Conns
        /\ last'.ev \notin {"connection", "join", "disconnect"}
        /\ sockets[last'.conn].state = "open"
        /\ last'.conn \notin DOMAIN socketIdToIP)
           => /\ rooms' = rooms /\ sockets' = sockets /\ adapter' = adapter
              /\ socketToRoom' = socketToRoom /\ socketFocused' = socketFocused
              /\ socketAway' = socketAway /\ activeDMs' = activeDMs
              /\ \A k \in DOMAIN out' : out'[k].to \subseteq {last'.conn}]_vars


(***************************************************************************)
(* SpecGone: after the burst of SpecRate, clients go on, step away, are    *)
(* banned, time out and leave                                              *)
(***************************************************************************)
\* the least of a non-empty set of times
Earliest(times) == CHOOSE t \in times : \A u \in times : t <= u
\* time passes until the next pending timeout is due
WaitForTimeout ==
    /\ DueTimes # {}
    /\ now < Earliest(DueTimes)
    /\ Tick(Earliest(DueTimes) - now)

\* connection 1 may go on until the rate limiter has refused it for abuse, the others
\* send MaxExtra events that the rate limiter lets pass
Going(c) == Accepted(c) < (IF c = 1 THEN RATE_TOTAL_MAX + 1 ELSE MaxExtra)

\* connection 1 joins again and again until it is refused for abuse; connection 2 joins,
\* uses a slur, blurs before it has an attention entry, steps away when no away timeout
\* of its own is pending and comes back when it is away; every connection but the
\* first may leave
Others == Conns \ {1}
NextGone ==
    \/ \E c \in Conns : Connect(c, HomeIP(c))
    \/ Going(1) /\ Join(1, ModJoinOf(1), NoRandom)
    \/ \E c \in Others : Disconnect(c)
    \/ Going(2) /\ Join(2, ModJoinOf(2), NoRandom)
    \/ Going(2) /\ Message(2, "you tard", FALSE)
    \/ 2 \notin DOMAIN socketFocused /\ Focus(2, FALSE)
    \/ 2 \notin DOMAIN awayTimers /\ Away(2)
    \/ 2 \in DOMAIN socketAway /\ Back(2)
    \/ now < AfterBurst.now + AWAY_TIMEOUT_MS /\ WaitForTimeout
    \/ \E c \in Conns : TypingTimeout(c)
    \/ \E c \in Conns : AwayTimeout(c)

SpecGone == InitRate /\ [][NextGone]_vars

\* the maps and timer maps keyed by connection id that hold an entry for c
KeyedBy(c) ==
    {m \in {"ip", "focus", "away", "room", "rate", "awayTimer", "typingTimer"} :
        c \in CASE m = "ip" -> DOMAIN socketIdToIP
                [] m = "focus" -> DOMAIN socketFocused
                [] m = "away" -> DOMAIN socketAway
                [] m = "room" -> DOMAIN socketToRoom
                [] m = "rate" -> DOMAIN rateLimits
                [] m = "awayTimer" -> DOMAIN awayTimers
                [] m = "typingTimer" -> DOMAIN typingTimers}

\* C15: once a connection is disconnected, for whatever reason, no entry keyed by its
\* connection id remains in the IP, focus, away, room-membership or rate-limit maps, and
\* no away or typing-stop timer of it is pending
C15_NothingKeptOfClosedConnections ==
    \A c \in Conns : sockets[c].state = "closed" => KeyedBy(c) = {}

\* connection 1 has just been disconnected for abuse, and connection 2, which had
\* joined, has been banned for bigotry
C15_ClosedForAbuseAndBanned ==
    /\ last.conn = 1 /\ last.rate = "abuse" /\ sockets[1].state = "closed"
    /\ sockets[2].state = "closed" /\ sockets[2].ip \in bannedIPs
    /\ Len(passed[2].join) > 0


(***************************************************************************)
(* SpecDecay: two clients talk in two rooms while the decay interval fires *)
(***************************************************************************)
DecayJoinOf(c) ==
    [color |-> IF c = 1 THEN "#aaaaaa" ELSE "#bbbbbb", handle |-> Undef, tag |-> Undef,
     sigil |-> "eye", roomId |-> IF c = 1 THEN "Den" ELSE Undef]

\* the texts connection c sends in SpecDecay
DecayTextsOf(c) == IF c = 1 THEN MoodTexts ELSE {"good"}

\* the clients arrive before the decay interval fires for the first time
NextDecay ==
    \/ \E c \in Conns : now = StartTime /\ Connect(c, HomeIP(c))
    \/ \E c \in Conns :
          /\ now = StartTime /\ Len(passed[c].join) < MaxJoins
          /\ Join(c, DecayJoinOf(c), NoRandom)
    \/ \E c \in DOMAIN socketToRoom : \E t \in DecayTextsOf(c) :
          msgSeq < MaxMoodMsgs /\ Message(c, t, FALSE)
    \/ now < StartTime + MaxDecays * MOOD_DECAY_INTERVAL_MS /\ MoodDecay

SpecDecay == Init /\ [][NextDecay]_vars

\* the history h with the score v pushed: the oldest score goes when h is full
Pushed(h, v) ==
    IF Len(h) < MAX_SENTIMENT_HISTORY THEN Append(h, v) ELSE Append(Tail(h), v)

\* C16: the sentiment history of every room holds at most MAX_SENTIMENT_HISTORY scores,
\* and it changes only by a score being pushed, by a message or by the decay timer, the
\* oldest score being evicted when the history is full
C16_SentimentHistoryIsCapped ==
    /\ [](\A r \in DOMAIN rooms : Len(rooms[r].sentiment) <= MAX_SENTIMENT_HISTORY)
    /\ [][\A r \in DOMAIN rooms \cap DOMAIN rooms' :
             rooms'[r].sentiment # rooms[r].sentiment
                 => /\ last'.ev \in {"message", "mood-decay"}
                    /\ rooms'[r].sentiment =
                           Pushed(rooms[r].sentiment,
                                  rooms'[r].sentiment[Len(rooms'[r].sentiment)])]_vars

\* a message has just pushed its score into a full history of decay samples
C16_MessageEvictedDecaySample ==
    /\ last.ev = "message"
    /\ \E r \in DOMAIN rooms :
          /\ Len(rooms[r].sentiment) = MAX_SENTIMENT_HISTORY
          /\ \A k \in 1..(MAX_SENTIMENT_HISTORY - 1) : rooms[r].sentiment[k] = 0
          /\ rooms[r].sentiment[MAX_SENTIMENT_HISTORY] # 0

\* the mood of a history of scores in hundredths: neutral when it is empty, intense when
\* its mean is below -0.4, calm when its mean is above 0.4, neutral otherwise
MoodOfMean(h) ==
    IF h = <<>> THEN "neutral"
    ELSE IF 10 * SumSeq(h) < -4 * 100 * Len(h) THEN "intense"
    ELSE IF 10 * SumSeq(h) > 4 * 100 * Len(h) THEN "calm"
    ELSE "neutral"

\* the mood events of the step, and the events of the step that carry a mood
MoodEvents(o) == {k \in DOMAIN o : o[k].ev = "mood"}
MoodCarriers(o) == {k \in DOMAIN o : o[k].ev \in {"mood", "arrival-vibe"}}

\* C17: every mood the server emits for a room is the mood of the mean of the room's
\* sentiment history as it is then: with a message, the mood of the sender's room; with
\* a join, the mood of the room entered; with a decay, the mood of a room the decay has
\* just pushed a sample into, sent to the members of that room
C17_MoodIsClassOfMean ==
    [][/\ last'.ev = "message"
           => \A k \in MoodEvents(out') :
                 out'[k].data.mood =
                     MoodOfMean(rooms'[MapGet(socketToRoom, last'.conn,
                                              DEFAULT_ROOM_ID)].sentiment)
       /\ last'.ev = "join"
           => \A k \in MoodCarriers(out') :
                 out'[k].data.mood = MoodOfMean(rooms'[socketToRoom'[last'.conn]].sentiment)
       /\ last'.ev = "mood-decay"
           => \A k \in MoodEvents(out') :
                 \E r \in DOMAIN rooms :
                    /\ Len(rooms[r].sentiment) > 0
                    /\ rooms'[r].sentiment = Pushed(rooms[r].sentiment, 0)
                    /\ out'[k].to = {c \in Conns : r \in adapter'[c]}
                    /\ out'[k].data.mood = MoodOfMean(rooms'[r].sentiment)]_vars

\* a room has just been told a mood for a mean of exactly -0.4
C17_MoodAtThreshold ==
    /\ last.ev = "mood-decay"
    /\ \E k \in MoodEvents(out), r \in DOMAIN rooms :
          /\ out[k].to = {c \in Conns : r \in adapter[c]} /\ out[k].to # {}
          /\ 10 * SumSeq(rooms[r].sentiment) = -4 * 100 * Len(rooms[r].sentiment)
          /\ out[k].data.mood = "neutral"

\* C19: when the decay interval fires, every room with a non-empty history whose last
\* message is more than MOOD_DECAY_MS old gets a 0 sample and its members are told the
\* mood, and no other room's history changes; a room whose last message is more than
\* MOOD_DECAY_MS and four intervals old has had five such samples and is neutral
C19_DecayRelaxesQuietRooms ==
    [][last'.ev = "mood-decay"
          => \A r \in DOMAIN rooms :
                /\ IF Len(rooms[r].sentiment) > 0
                      /\ now' - rooms[r].lastMessageTs > MOOD_DECAY_MS
                   THEN /\ rooms'[r].sentiment = Pushed(rooms[r].sentiment, 0)
                        /\ \E k \in MoodEvents(out') :
                              /\ out'[k].to = {c \in Conns : r \in adapter[c]}
                              /\ out'[k].data.mood = MoodOfMean(rooms'[r].sentiment)
                   ELSE rooms'[r].sentiment = rooms[r].sentiment
                /\ now' - rooms[r].lastMessageTs > MOOD_DECAY_MS + 4 * MOOD_DECAY_INTERVAL_MS
                      => MoodOfMean(rooms'[r].sentiment) = "neutral"]_vars

\* a room that was calm or intense has just had its fifth decay sample in a row
C19_FifthDecaySample ==
    /\ last.ev = "mood-decay"
    /\ \E r \in DOMAIN rooms :
          /\ rooms[r].lastMessageTs > 0
          /\ now - rooms[r].lastMessageTs = MOOD_DECAY_MS + 5 * MOOD_DECAY_INTERVAL_MS
          /\ rooms[r].sentiment = [k \in 1..MAX_SENTIMENT_HISTORY |-> 0]

(***************************************************************************)
(* Message texts: trimmed, not empty, at most MAX_TEXT characters          *)
(***************************************************************************)
\* String.prototype.repeat
RECURSIVE Repeat(_, _)
Repeat(s, n) ==
    IF n = 0 THEN ""
    ELSE IF n % 2 = 0 THEN Repeat(s \o s, n \div 2) ELSE s \o Repeat(s \o s, n \div 2)

\* the texts clients send in SpecText: empty and blank texts, a short text, a text of
\* exactly MAX_TEXT characters, texts that are longer (one of them has a space as its
\* MAX_TEXT-th character), a long text with a slur in its first MAX_TEXT characters and
\* one whose slur is cut by the truncation
LongTexts ==
    {Repeat("~", MAX_TEXT),
     "  " \o Repeat("~", MAX_TEXT + 1) \o " ",
     Repeat("~", MAX_TEXT - 1) \o " x",
     "tard " \o Repeat("~", MAX_TEXT),
     Repeat("~", MAX_TEXT - 4) \o " tard"}
TextInputs == {"", "   ", " hi ", "\thi\n", "you tard"} \cup LongTexts

NextText ==
    \/ \E c \in Conns : Connect(c, HomeIP(c))
    \/ \E c \in Conns : /\ Len(passed[c].join) < MaxJoins /\ SentUpTo(MaxConns) = 0
                        /\ Join(c, ModJoinOf(c), NoRandom)
    \/ \E c \in Conns, t \in TextInputs :
          SentUpTo(MaxConns) < MaxTextMsgs /\ Message(c, t, FALSE)

SpecText == Init /\ [][NextText]_vars

\* a text that is not empty after trimming and has at most MAX_TEXT characters
TextOk(t) == Trim(t) # "" /\ Len(t) <= MAX_TEXT

\* C18: every message text in a room's buffer and every message text sent to clients is
\* not empty after trimming and has at most MAX_TEXT characters; a message whose text is
\* empty after trimming changes no room and is not sent to anyone; the text sent for a
\* message has the length of the trimmed text cut to MAX_TEXT characters, and unless it
\* is flagged as moderated it is the first MAX_TEXT characters of the trimmed text
C18_MessageTextsAreTrimmedAndCut ==
    /\ [](\A r \in DOMAIN rooms : \A k \in DOMAIN rooms[r].messages :
             TextOk(rooms[r].messages[k].text))
    /\ [][last'.ev = "message"
             => /\ Trim(last'.text) = ""
                    => /\ rooms' = rooms
                       /\ \A k \in DOMAIN out' : out'[k].ev = "rate-limited"
                /\ \A k \in DOMAIN out' :
                      out'[k].ev = "message"
                          => /\ TextOk(out'[k].data.text)
                             /\ Len(out'[k].data.text) =
                                    Min(Len(Trim(last'.text)), MAX_TEXT)
                             /\ ~out'[k].data.flagged
                                    => out'[k].data.text =
                                           SubSeq(Trim(last'.text), 1,
                                                  Len(out'[k].data.text))]_vars

\* a text of more than MAX_TEXT characters after trimming has just been sent to a room
\* and buffered, cut to MAX_TEXT characters of which the last is a space
C18_LongTextCutAtSpace ==
    /\ last.ev = "message"
    /\ Len(Trim(last.text)) > MAX_TEXT
    /\ \E k \in DOMAIN out, r \in DOMAIN rooms :
          /\ out[k].ev = "message" /\ out[k].to # {}
          /\ Len(out[k].data.text) = MAX_TEXT
          /\ CharAt(out[k].data.text, MAX_TEXT) = " "
          /\ rooms[r].messages # <<>>
          /\ rooms[r].messages[Len(rooms[r].messages)].text = out[k].data.text

(***************************************************************************)
(* Stepping away: the away timeout                                         *)
(***************************************************************************)
\* time passes in SpecAway in steps of half the away timeout
AwayTickMs == AWAY_TIMEOUT_MS \div 2

\* the connections arrive, join and may leave at the start; then they step away and
\* come back while time passes
NextAway ==
    \/ \E c \in Conns : now = StartTime /\ Connect(c, HomeIP(c))
    \/ \E c \in Conns : /\ now = StartTime /\ Len(passed[c].join) < MaxJoins
                        /\ Join(c, ModJoinOf(c), NoRandom)
    \/ \E c \in Conns : Away(c)
    \/ \E c \in Conns : Back(c)
    \/ \E c \in Conns : now = StartTime /\ Disconnect(c)
    \/ now < StartTime + MaxAwayTicks * AwayTickMs /\ Tick(AwayTickMs)
    \/ \E c \in Conns : AwayTimeout(c)

SpecAway == Init /\ [][NextAway]_vars

\* the away timeout of connection c is pending
AwayPending(c) == c \in DOMAIN awayTimers /\ awayTimers[c].due > 0

\* C20: an away timeout is pending exactly for the open connections that are away, and
\* time does not pass its due time; an away sets the due time AWAY_TIMEOUT_MS after the
\* away, whatever timeout was pending; a back leaves no timeout pending and the
\* connection open; the timeout fires at its due time and closes the connection; and a
\* connection is closed only by its client or by its timeout
C20_AwayTimeoutDisconnects ==
    /\ [](\A c \in Conns :
             /\ AwayPending(c) <=> sockets[c].state = "open" /\ MapGet(socketAway, c, FALSE)
             /\ AwayPending(c) => now <= awayTimers[c].due)
    /\ [][/\ last'.ev = "away"
              => /\ MapGet(socketAway', last'.conn, FALSE)
                 /\ awayTimers'[last'.conn].due = now' + AWAY_TIMEOUT_MS
          /\ last'.ev = "back"
              => /\ ~MapGet(socketAway', last'.conn, FALSE)
                 /\ last'.conn \notin DOMAIN awayTimers'
                 /\ sockets'[last'.conn].state = "open"
          /\ last'.ev = "away-timeout"
              => /\ MapGet(socketAway, last'.conn, FALSE)
                 /\ now' = awayTimers[last'.conn].due
                 /\ sockets'[last'.conn].state = "closed"
          /\ \A c \in Conns :
                sockets[c].state = "open" /\ sockets'[c].state # "open"
                    => last'.conn = c /\ last'.ev \in {"disconnect", "away-timeout"}]_vars

\* the away timeout has just closed a connection, while another connection, which has
\* joined, is open with no timeout pending
C20_ClosedByAwayTimeout ==
    /\ last.ev = "away-timeout"
    /\ sockets[last.conn].state = "closed"
    /\ last.conn \notin DOMAIN socketToRoom
    /\ \E d \in Conns \ {last.conn} :
          sockets[d].state = "open" /\ d \in DOMAIN socketToRoom /\ ~AwayPending(d)

(***************************************************************************)
(* SpecSilence: rooms fall silent and are woken by messages and typing     *)
(***************************************************************************)
\* the number of typing events of the connections 1..c that passed the rate limiter
RECURSIVE TypedUpTo(_)
TypedUpTo(c) == IF c = 0 THEN 0 ELSE Len(passed[c].typing) + TypedUpTo(c - 1)
QuietBreaks == SentUpTo(MaxConns) + TypedUpTo(MaxConns)

\* the clients arrive before the silence interval fires for the first time
NextSilence ==
    \/ \E c \in Conns : now = StartTime /\ Connect(c, HomeIP(c))
    \/ \E c \in Conns : /\ now = StartTime /\ Len(passed[c].join) < MaxJoins
                        /\ Join(c, DecayJoinOf(c), NoRandom)
    \/ \E c \in Conns, t \in {"hi", "you tard"} :
          QuietBreaks < MaxQuietBreaks /\ Message(c, t, FALSE)
    \/ \E c \in Conns : QuietBreaks < MaxQuietBreaks /\ Typing(c)
    \/ \E c \in Conns : TypingTimeout(c)
    \/ now < StartTime + MaxSweeps * SILENCE_INTERVAL_MS /\ SilenceSweep

SpecSilence == Init /\ [][NextSilence]_vars

\* the connections in the Socket.io room r
InRoom(r) == {c \in Conns : r \in adapter[c]}
\* the silence events among the emissions o that say settled, and those that do not
SettledEvents(o) == {k \in DOMAIN o : o[k].ev = "silence" /\ o[k].data.settled}
UnsettledEvents(o) == {k \in DOMAIN o : o[k].ev = "silence" /\ ~o[k].data.settled}
\* the rooms that the sweep of this step finds quiet for longer than the threshold and
\* not yet settled
FallingSilent ==
    {r \in DOMAIN rooms :
        now' - rooms[r].lastActivity > SILENCE_THRESHOLD_MS /\ ~rooms[r].silenceState}

\* C21: a sweep leaves every room settled whose last activity is more than
\* SILENCE_THRESHOLD_MS old, and it tells silence{settled: true, since} once to each room
\* that it settles and to no other room: to a room that is already settled or not yet
\* quiet for that long it says nothing
C21_SweepSettlesQuietRoomsOnce ==
    [][last'.ev = "silence-sweep"
          => /\ \A r \in DOMAIN rooms :
                   now' - rooms[r].lastActivity > SILENCE_THRESHOLD_MS
                       => rooms'[r].silenceState
             /\ \A r \in DOMAIN rooms \ FallingSilent :
                   rooms'[r].silenceState = rooms[r].silenceState
             /\ \A M \in SUBSET Conns :
                   Cardinality({k \in SettledEvents(out') : out'[k].to = M})
                       = Cardinality({r \in FallingSilent : InRoom(r) = M})
             /\ \A k \in SettledEvents(out') :
                   \E r \in FallingSilent :
                      InRoom(r) = out'[k].to /\ out'[k].data.since = rooms[r].lastActivity
             /\ UnsettledEvents(out') = {}]_vars

\* a sweep has just settled a room with members for the second time: its last activity
\* came when it had been quiet for longer than the threshold
C21_SettledAgain ==
    /\ last.ev = "silence-sweep"
    /\ \E k \in SettledEvents(out) :
          /\ out[k].to # {}
          /\ out[k].data.since > StartTime + SILENCE_THRESHOLD_MS
          /\ now - out[k].data.since = SILENCE_THRESHOLD_MS + SILENCE_INTERVAL_MS

\* the room in which the handlers record the activity of connection c
ActiveRoomOf(c) == MapGet(socketToRoom, c, DEFAULT_ROOM_ID)
\* the step is a typing event that passed the rate limiter, or a message that was
\* accepted: it passed the rate limiter and its text was sent on unflagged
AcceptedActivity ==
    /\ last'.rate = "passed"
    /\ \/ last'.ev = "typing"
       \/ /\ last'.ev = "message"
          /\ \E k \in DOMAIN out' : out'[k].ev = "message" /\ ~out'[k].data.flagged

\* C22: a settled room has had no activity for longer than SILENCE_THRESHOLD_MS; an
\* accepted message or typing event records the activity and clears the flag of its room
\* in the same step; the flag is set by a sweep only and cleared by an accepted message
\* or typing event only, never by a sweep
C22_SettledMeansQuiet ==
    /\ [](\A r \in DOMAIN rooms :
             rooms[r].silenceState => now - rooms[r].lastActivity > SILENCE_THRESHOLD_MS)
    /\ [][/\ AcceptedActivity
              => /\ rooms'[ActiveRoomOf(last'.conn)].lastActivity = now'
                 /\ ~rooms'[ActiveRoomOf(last'.conn)].silenceState
          /\ \A r \in DOMAIN rooms \cap DOMAIN rooms' :
                /\ ~rooms[r].silenceState /\ rooms'[r].silenceState
                      => last'.ev = "silence-sweep"
                /\ rooms[r].silenceState /\ ~rooms'[r].silenceState
                      => AcceptedActivity /\ r = ActiveRoomOf(last'.conn)]_vars

\* the only event any client has sent since it joined is a typing event, which has just
\* woken the default room after it had been quiet for longer than the threshold
C22_TypingWokeSettledRoom ==
    /\ last.ev = "typing" /\ last.rate = "passed"
    /\ QuietBreaks = 1
    /\ ActiveRoomOf(last.conn) = DEFAULT_ROOM_ID
    /\ now - StartTime > SILENCE_THRESHOLD_MS + SILENCE_INTERVAL_MS
    /\ rooms[DEFAULT_ROOM_ID].lastActivity = now
    /\ ~rooms[DEFAULT_ROOM_ID].silenceState

(***************************************************************************)
(* SpecSwitch: clients create, enter, leave and delete a room              *)
(***************************************************************************)
\* the create-room events of connections 1..c that passed their rate check
RECURSIVE CreatedUpTo(_)
CreatedUpTo(c) == IF c = 0 THEN 0 ELSE Len(passed[c].createRoom) + CreatedUpTo(c - 1)

\* the join events of connections 1..c that passed their rate check
RECURSIVE JoinedUpTo(_)
JoinedUpTo(c) == IF c = 0 THEN 0 ELSE Len(passed[c].join) + JoinedUpTo(c - 1)

\* the room ids clients ask to be switched to: the room "den" that they create and
\* delete, a room that never exists, and the default room
SwitchTargets == {"den", "attic", DEFAULT_ROOM_ID}

\* the room ids clients ask to be deleted: den and the default room
DeleteTargets == {"den", "Main"}

NextSwitch ==
    \/ \E c \in Conns : Connect(c, HomeIP(c))
    \/ \E c \in Conns : JoinedUpTo(MaxConns) < MaxJoins /\ Join(c, DecayJoinOf(c), NoRandom)
    \/ \E c \in Conns : CreatedUpTo(MaxConns) < MaxDens /\ CreateRoom(c, "Den", FALSE)
    \/ \E c \in Conns, r \in SwitchTargets : FewLeaves /\ SwitchRoom(c, r)
    \/ \E c \in Conns, r \in DeleteTargets : DeleteRoom(c, r)

SpecSwitch == Init /\ [][NextSwitch]_vars

\* C23: a switch-room to a room id that is not in the registry and is not the default
\* room is answered with room-switch-failed to the requester and nothing else is sent;
\* the registry, every room and the membership of every connection stay as they are
C23_SwitchToMissingRoomIsRefused ==
    [][(/\ last'.ev = "switch-room"
        /\ getRoomId(last'.text) \notin DOMAIN rooms
        /\ getRoomId(last'.text) # DEFAULT_ROOM_ID)
          => /\ Len(out') = 1
             /\ out'[1].ev = "room-switch-failed" /\ out'[1].to = {last'.conn}
             /\ rooms' = rooms /\ socketToRoom' = socketToRoom /\ adapter' = adapter]_vars

\* the last step sent ev to connection c alone, with a payload whose field f is v
SentField(o, c, ev, f, v) ==
    \E k \in DOMAIN o : o[k].ev = ev /\ o[k].to = {c} /\ o[k].data[f] = v

\* the last step put connection c into room r and sent it the state of r
JoinedInto(c, r, rs, stor, adap, o) ==
    /\ c \in DOMAIN stor /\ stor[c] = r /\ r \in adap[c]
    /\ SentField(o, c, "room-joined", "id", r)
    /\ SentField(o, c, "room-joined", "title", rs[r].title)
    /\ SentField(o, c, "ghosts", "messages", LastMessages(rs[r].messages))
    /\ SentField(o, c, "room-title", "title", rs[r].title)

\* C24: an accepted join that names a room that does not exist enters the default room,
\* receives the default room's room-joined payload and snapshot and creates no room
\* when the registry holds MAX_ROOMS rooms or more; below the cap the room named is
\* created by the join and entered
C24_JoinAtCapFallsBackToDefault ==
    [][(/\ last'.ev = "join" /\ last'.rate = "passed"
        /\ getRoomId(last'.text) \notin DOMAIN rooms)
          => IF Cardinality(DOMAIN rooms) >= MAX_ROOMS
             THEN /\ DOMAIN rooms' = DOMAIN rooms
                  /\ getRoomId(last'.text) \notin adapter'[last'.conn]
                  /\ JoinedInto(last'.conn, DEFAULT_ROOM_ID, rooms', socketToRoom', adapter', out')
             ELSE /\ DOMAIN rooms' = DOMAIN rooms \cup {getRoomId(last'.text)}
                  /\ JoinedInto(last'.conn, getRoomId(last'.text), rooms', socketToRoom',
                                adapter', out')]_vars

\* a join named the missing room den while the registry was full and went to the
\* default room
C24_FellBackToDefault ==
    /\ last.ev = "join" /\ last.rate = "passed" /\ getRoomId(last.text) = "den"
    /\ "den" \notin DOMAIN rooms /\ Cardinality(DOMAIN rooms) >= MAX_ROOMS
    /\ socketToRoom[last.conn] = DEFAULT_ROOM_ID

(***************************************************************************)
(* SpecCreate: the registry is two rooms short of its cap; clients create  *)
(* and delete rooms while time passes                                      *)
(***************************************************************************)
CreateTitles == {"Den", " Lair", "", "   "}
\* the time at which the script of AlmostFull ends
CapStartTime == StartTime + FillRounds * RATE_CREATE_WINDOW

NextCreate ==
    \/ \E c \in Conns : now = CapStartTime /\ Connect(c, HomeIP(c))
    \/ \E c \in Conns, t \in CreateTitles :
          /\ CreatedUpTo(MaxConns) < FillRounds * RATE_CREATE_MAX + MaxCreates
          /\ CreateRoom(c, t, t = " Lair")
    \/ DeleteRoom(1, "den")
    \/ /\ now < CapStartTime + MaxCreateTicks * (RATE_CREATE_WINDOW \div 2)
       /\ Tick(RATE_CREATE_WINDOW \div 2)

SpecCreate == InitCap /\ [][NextCreate]_vars

\* the room id create-room derives from the title
SlugOf(title) == getRoomId(SpacesToHyphen(Slice0(Trim(title), 64)))

\* fewer than RATE_CREATE_MAX create-room events of connection c were let through in
\* the RATE_CREATE_WINDOW before now
WithinCreateLimit(c) ==
    Len(PurgeOld(getRateLimitBucket(rateLimits, c).createRoom, now, RATE_CREATE_WINDOW))
        < RATE_CREATE_MAX

\* the conditions under which create-room from c with this title adds a room
MayCreate(c, title) ==
    /\ WithinCreateLimit(c)
    /\ ~Falsy(title)
    /\ Cardinality(DOMAIN rooms) < MAX_ROOMS
    /\ SlugOf(title) \notin DOMAIN rooms

\* C25: create-room adds a room, the one of the slug of its title, exactly when the
\* requester is within the create-room limit, the title is a non-empty string, the
\* registry is below MAX_ROOMS and the slug is not a room yet; in every other case the
\* registry stays as it is and the only thing sent is room-create-failed to the requester
C25_CreateRoomOnlyWhenAllowed ==
    [][last'.ev = "create-room"
          => IF MayCreate(last'.conn, last'.text)
             THEN /\ DOMAIN rooms' = DOMAIN rooms \cup {SlugOf(last'.text)}
                  /\ \A r \in DOMAIN rooms : rooms'[r] = rooms[r]
             ELSE /\ rooms' = rooms
                  /\ Len(out') = 1
                  /\ out'[1].ev = "room-create-failed" /\ out'[1].to = {last'.conn}]_vars

\* a create-room was refused for the size of the registry alone
C25_RefusedAtCap ==
    /\ last.ev = "create-room" /\ last.rate = "passed" /\ ~Falsy(last.text)
    /\ SlugOf(last.text) \notin DOMAIN rooms
    /\ Cardinality(DOMAIN rooms) >= MAX_ROOMS
    /\ Len(out) = 1 /\ out[1].ev = "room-create-failed"

\* C26: the default room is in the registry in every reachable state
C26_DefaultRoomAlwaysExists == DEFAULT_ROOM_ID \in DOMAIN rooms

\* a client nobody shares the default room with asked for the default room to be
\* deleted and was refused
C26_DeleteOfDefaultRefused ==
    /\ last.ev = "delete-room" /\ getRoomId(last.text) = DEFAULT_ROOM_ID
    /\ \A c \in Conns : DEFAULT_ROOM_ID \notin adapter[c]
    /\ DeleteRefused(out, "Cannot delete the main room")
    /\ DEFAULT_ROOM_ID \in DOMAIN rooms

\* the category under which the rate limiter counts an event
CategoryOf(ev) ==
    CASE ev = "create-room" -> "createRoom"
      [] ev = "dm-typing" -> "typing"
      [] OTHER -> ev

\* the timestamps of category cat that connection c has within the window at time t
Live(c, cat, t) ==
    PurgeOld(getRateLimitBucket(rateLimits, c)[cat], t, RATE_LIMITS[cat].windowMs)

\* C27: a rate check answers abuse when the total window holds RATE_TOTAL_MAX events
\* or more, else rate-limited when the window of the category holds its cap or more,
\* else it lets the event pass; it leaves in the two windows the timestamps younger
\* than the window, followed by the time of the event exactly when the event passed,
\* and leaves the other categories as they were
C27_TotalCapTestedFirstAndOnlyPassedRecorded ==
    [][last'.rate # "none"
          => LET c == last'.conn
                 cat == CategoryOf(last'.ev)
                 verdict == IF Len(Live(c, "total", now)) >= RATE_TOTAL_MAX THEN "abuse"
                            ELSE IF Len(Live(c, cat, now)) >= RATE_LIMITS[cat].max
                            THEN "rate-limited" ELSE "passed"
                 added == IF verdict = "passed" THEN <<now>> ELSE <<>>
             IN  /\ last'.rate = verdict
                 /\ c \in DOMAIN rateLimits'
                       => /\ rateLimits'[c][cat] = Live(c, cat, now) \o added
                          /\ rateLimits'[c].total = Live(c, "total", now) \o added
                          /\ \A k \in DOMAIN EmptyBucket \ {cat, "total"} :
                                rateLimits'[c][k] = getRateLimitBucket(rateLimits, c)[k]]_vars

\* a message was refused as abuse while the sender had reached the message cap too
C27_BothCapsReached ==
    /\ last.ev = "message" /\ last.rate = "abuse"
    /\ Len(PurgeOld(passed[last.conn].message, now, RATE_MESSAGE_WINDOW)) >= RATE_MESSAGE_MAX

(***************************************************************************)
(* SpecFlood: clients type as fast as they can within one second           *)
(***************************************************************************)
NextFlood ==
    \/ \E c \in Conns : Connect(c, HomeIP(c))
    \/ \E c \in Conns : Len(passed[c].join) < MaxJoins /\ Join(c, ModJoinOf(c), NoRandom)
    \/ \E c \in Conns : Typing(c)
    \/ \E c \in Conns : DmTyping(c, "#aaaaaa", 0)

SpecFlood == Init /\ [][NextFlood]_vars

\* C28: an event refused for the cap of its category alone is dropped: the sender is
\* sent a notification, stays connected, and no room changes
C28_SoftBreachNotifiesSender ==
    [][last'.rate = "rate-limited"
          => /\ \E k \in DOMAIN out' : out'[k].to = {last'.conn}
             /\ sockets'[last'.conn].state = "open"
             /\ rooms' = rooms]_vars

\* what moderate returns to its caller
Verdict(m) ==
    [allowed |-> m.allowed, reason |-> m.reason, maskedText |-> m.maskedText,
     isBigotry |-> m.isBigotry]

\* C29: in every reachable state, whatever texts were moderated before, moderate gives
\* a text the verdict it gives it when it is the first text moderated
C29_VerdictDependsOnTextAlone ==
    \A t \in ModTexts : Verdict(Moderated(t, urlLastIndex)) = Verdict(Moderated(t, 0))

(***************************************************************************)
(* SpecTyping: clients type, stop typing and leave while time passes       *)
(***************************************************************************)
TypingTickMs == TYPING_STOP_MS \div 2

NextTyping ==
    \/ \E c \in Conns : now = StartTime /\ Connect(c, HomeIP(c))
    \/ \E c \in Conns : /\ now = StartTime /\ JoinedUpTo(MaxConns) < MaxJoins
                        /\ Join(c, DecayJoinOf(c), NoRandom)
    \/ \E c \in Conns : TypedUpTo(MaxConns) < MaxTypings /\ Typing(c)
    \/ \E c \in Conns : TypingStop(c)
    \/ \E c \in DOMAIN typingTimers : Disconnect(c)
    \/ \E c \in Conns : TypingTimeout(c)
    \/ now < StartTime + MaxTypingTicks * TypingTickMs /\ Tick(TypingTickMs)

SpecTyping == Init /\ [][NextTyping]_vars

\* the typing-stop timeouts pending for connection c
StopsOf(stops, c) == {t \in stops : t.conn = c}

\* C30: a connection never has two typing-stop timeouts pending; after a typing event
\* that passed its rate check the one pending is the one this event set, after a
\* typing-stop and for a closed connection none is pending; so the timeout that fires
\* is the one set by the latest typing event of an open connection, TYPING_STOP_MS ago
C30_OnePendingTypingStop ==
    [][/\ \A c \in Conns :
             /\ Cardinality(StopsOf(typingStops', c)) <= 1
             /\ sockets'[c].state # "open" => StopsOf(typingStops', c) = {}
       /\ (last'.ev = "typing" /\ last'.rate = "passed")
             => StopsOf(typingStops', last'.conn)
                    = {[conn |-> last'.conn, due |-> now + TYPING_STOP_MS,
                        roomId |-> MapGet(socketToRoom, last'.conn, DEFAULT_ROOM_ID)]}
       /\ last'.ev = "typing-stop" => StopsOf(typingStops', last'.conn) = {}
       /\ last'.ev = "typing-timeout"
             => /\ sockets[last'.conn].state = "open"
                /\ passed[last'.conn].typing # <<>>
                /\ now = passed[last'.conn].typing[Len(passed[last'.conn].typing)]
                             + TYPING_STOP_MS
                /\ StopsOf(typingStops', last'.conn) = {}]_vars

\* a client typed twice, some time apart, and one typing-stop timeout fired for it,
\* TYPING_STOP_MS after the second
C30_SecondTypingTimedOut ==
    /\ last.ev = "typing-timeout"
    /\ Len(passed[last.conn].typing) = 2
    /\ passed[last.conn].typing[1] < passed[last.conn].typing[2]
    /\ now = passed[last.conn].typing[2] + TYPING_STOP_MS

(***************************************************************************)
(* SpecSecret: clients create and delete public and secret rooms and ask   *)
(* for the list of rooms                                                   *)
(***************************************************************************)
NextSecret ==
    \/ \E c \in Conns : Connect(c, HomeIP(c))
    \/ \E c \in Conns : JoinedUpTo(MaxConns) < MaxJoins /\ Join(c, DecayJoinOf(c), NoRandom)
    \/ \E c \in Conns, t \in CapTitles, secret \in BOOLEAN :
          CreatedUpTo(MaxConns) < MaxCreates /\ CreateRoom(c, t, secret)
    \/ \E c \in Conns, r \in {"den", "lair"} : DeleteRoom(c, r)
    \/ \E c \in Conns : ListRooms(c)

SpecSecret == Init /\ [][NextSecret]_vars

\* the room-list payloads the last step sent
RoomLists(o) == {o[k].data.rooms : k \in {j \in DOMAIN o : o[j].ev = "room-list"}}

\* C31: every room named in a room-list payload is a room of the registry whose secret
\* flag is not set, and a step that adds a secret room to the registry or removes one
\* from it sends no room-list
C31_RoomListNeverNamesSecretRooms ==
    [][/\ \A l \in RoomLists(out') : \A e \in l :
             e.id \in DOMAIN rooms' /\ ~rooms'[e.id].secret
       /\ (\E r \in DOMAIN rooms' \ DOMAIN rooms : rooms'[r].secret) => RoomLists(out') = {}
       /\ (\E r \in DOMAIN rooms \ DOMAIN rooms' : rooms[r].secret) => RoomLists(out') = {}]_vars

\* a client asked for the list of rooms while a secret room existed and got a list
C31_ListedBesideSecretRoom ==
    /\ last.ev = "list-rooms"
    /\ \E r \in DOMAIN rooms : rooms[r].secret
    /\ \E l \in RoomLists(out) : \E e \in l : e.id # DEFAULT_ROOM_ID

(***************************************************************************)
(* SpecResolve: clients in two rooms send DMs, DM typing indicators and    *)
(* summons to targets that are or are not in their room                    *)
(***************************************************************************)
\* the join payloads of connection c: the first client has no handle and stays in the
\* default room, the others are called ann and choose their room
ResolveJoinsOf(c) ==
    [color : {IF c = 1 THEN "#aaaaaa" ELSE "#bbbbbb"},
     handle : {IF c = 1 THEN Undef ELSE "Ann"}, tag : {Undef}, sigil : {"eye"},
     roomId : IF c = 1 THEN {Undef} ELSE {Undef, "Den"}]
\* the targets of a dm and of a dm-typing: a color, a socket id, or both
ResolveTargets ==
    {[color |-> "#bbbbbb", id |-> 0], [color |-> "#cccccc", id |-> 0],
     [color |-> Undef, id |-> 2], [color |-> "#aaaaaa", id |-> 2]}
SummonNames == {" ANN ", "bob", ""}

NextResolve ==
    \/ \E c \in Conns : JoinedUpTo(MaxConns) = 0 /\ Connect(c, HomeIP(c))
    \/ \E c \in Conns : \E p \in ResolveJoinsOf(c) :
          JoinedUpTo(MaxConns) < MaxJoins + 1 /\ Join(c, p, NoRandom)
    \/ \E c \in Conns, t \in ResolveTargets : Dm(c, t.color, t.id, "psst")
    \/ \E c \in Conns, t \in ResolveTargets :
          TypedUpTo(MaxConns) < MaxDmTypings /\ DmTyping(c, t.color, t.id)
    \/ \E c \in Conns, h \in SummonNames : Summon(c, h)

SpecResolve == Init /\ [][NextResolve]_vars

\* the room connection c sends from
SenderRoom(c) == MapGet(socketToRoom, c, DEFAULT_ROOM_ID)
\* the connections in the room of c
InRoomOf(c) ==
    {d \in Conns : /\ sockets[d].state = "open" /\ d \in DOMAIN socketToRoom
                   /\ socketToRoom[d] = SenderRoom(c)}
\* the connections in the room of c that the target t of a dm names: the one with the
\* socket id when t has one, else those of the color
NamedBy(c, t) ==
    {d \in InRoomOf(c) : IF t.id # 0 THEN d = t.id ELSE sockets[d].userColor = t.color}
\* the other connections in the room of c whose handle is h, whatever the case
Called(c, h) ==
    {d \in InRoomOf(c) \ {c} : /\ sockets[d].userHandle # Undef
                                /\ ToLowerCase(sockets[d].userHandle) = Trim(ToLowerCase(h))}
\* the last step sent ev to connection c and nothing else, and left the DM pairs and
\* their timers as they were
OnlyFailure(c, ev) ==
    /\ Len(out') = 1 /\ out'[1].ev = ev /\ out'[1].to = {c}
    /\ activeDMs' = activeDMs /\ dmCleanupTimers' = dmCleanupTimers

\* C32: a dm to a target that names no connection in the sender's room sends dm-failed
\* to the sender and nothing else, and creates no DM pair and no expiry timer; a summon
\* of a handle that no other connection in the sender's room has sends summon-failed to
\* the sender and nothing else
C32_UnresolvedTargetsFailToRequesterOnly ==
    [][/\ \A c \in Conns, t \in ResolveTargets :
             (/\ last'.ev = "dm" /\ last'.conn = c /\ NamedBy(c, t) = {}
              /\ Dm(c, t.color, t.id, "psst")) => OnlyFailure(c, "dm-failed")
       /\ \A c \in Conns, h \in SummonNames \ {""} :
             (/\ last'.ev = "summon" /\ last'.conn = c /\ Called(c, h) = {}
              /\ Summon(c, h)) => OnlyFailure(c, "summon-failed")
       /\ \A c \in Conns : (last'.ev = "summon" /\ Summon(c, "")) => out' = <<>>]_vars

\* a dm failed for a target that is connected and joined, but in another room
C32_TargetInOtherRoom ==
    /\ last.ev = "dm" /\ Len(out) = 1 /\ out[1].ev = "dm-failed"
    /\ \E d \in DOMAIN socketToRoom :
          /\ d # last.conn /\ sockets[d].userColor = "#bbbbbb"
          /\ socketToRoom[d] # MapGet(socketToRoom, last.conn, DEFAULT_ROOM_ID)
    /\ last.conn \in DOMAIN socketToRoom

\* the connections the last step sent ev to
SentTo(ev) == UNION {out'[k].to : k \in {j \in DOMAIN out' : out'[j].ev = ev}}

\* C33: a dm-typing that passes its rate check is delivered to the connection that a dm
\* with the same target fields from the same sender in the same state is delivered to,
\* and to no one when that dm fails
C33_DmTypingResolvesAsDm ==
    [][\A c \in Conns, t \in ResolveTargets :
          (/\ last'.ev = "dm-typing" /\ last'.conn = c /\ last'.rate = "passed"
           /\ DmTyping(c, t.color, t.id))
          => SentTo("dm-typing") = NamedBy(c, t) \cap {DmTarget(Cur, SenderRoom(c), t.color, t.id)}]_vars

(***************************************************************************)
(* SpecShutdown: clients copy messages, type and write DMs; minutes later  *)
(* the process is sent termination signals                                 *)
(***************************************************************************)
Signals == {"SIGTERM", "SIGINT"}
\* the steps that are callbacks of timers
TimerEvents ==
    {"mood-decay", "silence-sweep", "typing-timeout", "away-timeout", "dm-expire",
     "resonance-decay"}
\* the time that passes in one step: up to a few seconds before the cleanup of a
\* resonance counter is due, or those few seconds
ShutdownTicks == {RESONANCE_DECAY_MS - SILENCE_INTERVAL_MS, SILENCE_INTERVAL_MS}
ShutdownHorizon == StartTime + RESONANCE_DECAY_MS + FORCE_EXIT_MS
\* the clients arrive when the server has started
Arrived == now = StartTime /\ ~isShuttingDown

NextShutdown ==
    \/ \E c \in Conns : Arrived /\ Connect(c, HomeIP(c))
    \/ \E c \in Conns : Arrived /\ JoinedUpTo(MaxConns) < MaxJoins
                                  /\ Join(c, DmJoinOf(c), NoRandom)
    \/ \E c \in Conns, m \in {"m1", Undef} :
          Arrived /\ Cardinality(resonanceTimers) < MaxCopies /\ Copy(c, m)
    \/ \E c \in Conns : Arrived /\ TypedUpTo(MaxConns) < MaxTypings /\ Typing(c)
    \/ \E c \in DOMAIN socketToRoom : Arrived /\ Dm(c, "#aaaaaa", 0, "psst")
    \/ \E d \in ShutdownTicks : ~exited /\ now + d <= ShutdownHorizon /\ Tick(d)
    \/ ~exited /\ now < ShutdownHorizon /\ SilenceSweep
    \/ ~exited /\ now < ShutdownHorizon /\ MoodDecay
    \/ \E c \in Conns : ~exited /\ TypingTimeout(c)
    \/ \E k \in DOMAIN dmCleanupTimers : ~exited /\ DmExpire(k)
    \/ \E t \in resonanceTimers : ~exited /\ ResonanceDecay(t)
    \/ \E sig \in Signals : Signal(sig)
    \/ Exit

SpecShutdown == Init /\ [][NextShutdown]_vars

\* the state but for the record of the last step
Kept ==
    <<now, sockets, adapter, socketIdToIP, socketFocused, socketAway, socketToRoom, rooms,
      bannedIPs, rateLimits, typingTimers, typingStops, awayTimers, activeDMs,
      dmCleanupTimers, messageResonance, resonanceTimers, moodDecayTimer, silenceTimer,
      isShuttingDown, exitTimer, exited, urlLastIndex, msgSeq, passed>>

\* C34: the first termination signal sends server-shutdown to every open connection and
\* closes them all, a signal during shutdown changes nothing, and no callback of a timer
\* runs once shutdown has begun
C34_ShutdownCancelsEveryTimer ==
    [][/\ (last'.ev \in Signals /\ ~isShuttingDown) =>
             /\ out' # <<>>
             /\ out'[1] = [to |-> {c \in Conns : sockets[c].state = "open"},
                           ev |-> "server-shutdown",
                           data |-> [message |-> "Server is shutting down"]]
             /\ \A c \in Conns : sockets'[c].state # "open"
       /\ (last'.ev \in Signals /\ isShuttingDown) =>
             /\ out' = <<>>
             /\ UNCHANGED Kept
       /\ isShuttingDown => last'.ev \notin TimerEvents]_vars

(***************************************************************************)
(* SpecLink: clients in rooms that come and go send links and plain texts  *)
(***************************************************************************)
LinkSpecTexts == {"http://x.com", "hi"}

NextLink ==
    \/ \E c \in Conns : Connect(c, HomeIP(c))
    \/ \E c \in Conns : JoinedUpTo(MaxConns) < MaxJoins /\ Join(c, DecayJoinOf(c), NoRandom)
    \/ \E c \in Conns : CreatedUpTo(MaxConns) < MaxDens /\ CreateRoom(c, "Den", FALSE)
    \/ \E c \in Conns : FewLeaves /\ SwitchRoom(c, "den")
    \/ \E c \in Conns : DeleteRoom(c, "den")
    \/ \E c \in Conns, t \in LinkSpecTexts :
          SentUpTo(MaxConns) < MaxModMsgs /\ Message(c, t, FALSE)

SpecLink == Init /\ [][NextLink]_vars

\* the step handled a message that passed its rate check and was rejected as a link
LinkRejected ==
    /\ last'.ev = "message" /\ last'.rate = "passed"
    /\ \E k \in DOMAIN out' : out'[k].ev = "message-rejected"

\* C35: a message rejected for its link leaves the rooms as they were, with their
\* buffers, sentiment histories, timestamps and silence flags, and nothing is sent to a
\* connection other than the sender
C35_LinkRejectionLeavesRoomsAlone ==
    [][LinkRejected =>
          /\ rooms' = rooms
          /\ \A k \in DOMAIN out' : out'[k].to \subseteq {last'.conn}]_vars

\* the places of the message events in what a step sent
MessageEmits(o) == {k \in DOMAIN o : o[k].ev = "message"}

\* C36: a message flagged as bigotry is sent to the sender's room as one message event,
\* and no room's message buffer, sentiment history, last-message time, last-activity
\* time or silence flag changes
C36_FlaggedMessageLeavesNoTrace ==
    [][FlaggedStep(last', urlLastIndex) =>
          /\ Cardinality(MessageEmits(out')) = 1
          /\ \A k \in MessageEmits(out') :
                /\ out'[k].data.flagged
                /\ out'[k].to = Members(Cur, MapGet(socketToRoom, last'.conn, DEFAULT_ROOM_ID))
          /\ DOMAIN rooms' = DOMAIN rooms
          /\ \A r \in DOMAIN rooms : Talk(rooms'[r]) = Talk(rooms[r])]_vars

(***************************************************************************)
(* SpecPurge: clients write DMs in the room Den and in the default room,   *)
(* leave Den and delete it while its DM pairs are still active             *)
(***************************************************************************)
\* the DM pairs of room r
PairsOf(r) == {k \in DOMAIN dmCleanupTimers : dmCleanupTimers[k].roomId = r}

\* the clients join when the server has started; the first one writes the DMs and
\* deletes the room; time passes only while a pair of the room den is active
NextPurge ==
    \/ \E c \in Conns : now = StartTime /\ Connect(c, HomeIP(c))
    \/ \E c \in Conns : now = StartTime /\ JoinedUpTo(MaxConns) < MaxJoins + 1
                                          /\ Join(c, DmJoinOf(c), NoRandom)
    \/ \E c \in DOMAIN socketToRoom \cap {1}, t \in DmTargets : Dm(c, t.color, t.id, "psst")
    \/ \E c \in DOMAIN socketToRoom : socketToRoom[c] = "den" /\ SwitchRoom(c, "main")
    \/ \E c \in DOMAIN socketToRoom \cap {1} : DeleteRoom(c, "den")
    \/ /\ PairsOf("den") # {}
       /\ now < StartTime + MaxPurgeTicks * DmTickMs
       /\ Tick(DmTickMs)
    \/ \E k \in DOMAIN dmCleanupTimers : DmExpire(k)

SpecPurge == Init /\ [][NextPurge]_vars

\* the step is a delete-room that removed the room r
Deleted(r) ==
    /\ last'.ev = "delete-room" /\ getRoomId(last'.text) = r
    /\ r \in DOMAIN rooms /\ r \notin DOMAIN rooms'

\* C37: a delete-room that removes room R removes the DM pairs of R and their expiry
\* timers, and leaves those of the other rooms as they are; the timer that fires for a
\* pair is a pending one of a room in the registry, so none of the removed timers ends
\* a crosstalk later
C37_DeleteRoomPurgesItsPairsOnly ==
    [][/\ \A r \in DOMAIN rooms : Deleted(r) =>
             /\ DOMAIN dmCleanupTimers' = DOMAIN dmCleanupTimers \ PairsOf(r)
             /\ DOMAIN activeDMs' = DOMAIN activeDMs \ PairsOf(r)
             /\ \A k \in DOMAIN dmCleanupTimers' :
                   /\ dmCleanupTimers'[k] = dmCleanupTimers[k]
                   /\ activeDMs'[k] = activeDMs[k]
             /\ \A k \in DOMAIN out' : out'[k].ev # "crosstalk-ended"
       /\ \A k \in DOMAIN out' : out'[k].ev = "crosstalk-ended" =>
             /\ last'.ev = "dm-expire" /\ last'.text \in DOMAIN dmCleanupTimers
             /\ dmCleanupTimers[last'.text].roomId \in DOMAIN rooms]_vars

\* a delete-room has just removed the room den, half the expiry time after the clients
\* joined: a pair of den was active when the time passed, has not expired and is gone,
\* and a pair of the default room is still active
C37_PurgedBesideOtherPair ==
    /\ last.ev = "delete-room" /\ "den" \notin DOMAIN rooms
    /\ \E k \in DOMAIN out : out[k].ev = "room-deleted"
    /\ now = StartTime + DmTickMs
    /\ PairsOf("den") = {}
    /\ PairsOf(DEFAULT_ROOM_ID) # {}

(***************************************************************************)
(* Presence ghosts                                                         *)
(***************************************************************************)
\* the ghosts of a room are in the order of their departures
InDepartureOrder(gs) == \A i, j \in DOMAIN gs : i <= j => gs[i].leftAt <= gs[j].leftAt
\* the step added a ghost to room r: its list is neither the old one nor the old one
\* without its expired ghosts
GhostAdded(r) ==
    /\ r \in DOMAIN rooms /\ r \in DOMAIN rooms'
    /\ rooms'[r].presenceGhosts # rooms[r].presenceGhosts
    /\ rooms'[r].presenceGhosts # DropOldGhosts(rooms[r].presenceGhosts, now')
\* in the step the connection c, which has joined, left room r: it closed, or it is in
\* another room now
LeftRoom(c, r) ==
    /\ c \in DOMAIN socketIdToIP /\ c \in DOMAIN socketToRoom /\ socketToRoom[c] = r
    /\ \/ sockets'[c].state # "open"
       \/ c \in DOMAIN socketToRoom' /\ socketToRoom'[c] # r
\* the fade values of the presence-ghosts events in what a step sent, in milliseconds
FadesSent(o) ==
    UNION {{o[k].data.ghosts[i].fadeMs : i \in DOMAIN o[k].data.ghosts} :
              k \in {j \in DOMAIN o : o[j].ev = "presence-ghosts"}}

\* C38: a room never holds more than MAX_GHOSTS ghosts and holds them in the order of
\* their departures; a step adds a ghost to a room exactly when a connection that has
\* joined leaves the room in that step; every fade sent is between 0 and 1, that is
\* between 0 and GHOST_DURATION_MS milliseconds
C38_GhostsFollowDepartures ==
    /\ [](\A r \in DOMAIN rooms :
             /\ Len(rooms[r].presenceGhosts) <= MAX_GHOSTS
             /\ InDepartureOrder(rooms[r].presenceGhosts))
    /\ [](\A f \in FadesSent(out) : 0 <= f /\ f <= GHOST_DURATION_MS)
    /\ [][\A r \in DOMAIN rooms : GhostAdded(r) <=> \E c \in Conns : LeftRoom(c, r)]_vars

\* C39: every connection with a recorded current room is a member of that room and of
\* no other room, and the recorded room is in the registry
C39_RecordedRoomIsTheOnlyRoom ==
    \A c \in DOMAIN socketToRoom :
        /\ adapter[c] = {socketToRoom[c]}
        /\ socketToRoom[c] \in DOMAIN rooms

(***************************************************************************)
(* SpecStops: clients in one room type, stop, change rooms and leave; time *)
(* passes and the timeouts that are due fire                               *)
(***************************************************************************)
StopsHorizon == StartTime + MaxTypingTicks * TypingTickMs
StopsTick == now < StopsHorizon /\ Tick(TypingTickMs)
StopsTimeout == \E c \in Conns : TypingTimeout(c)

\* a client types only while there is time left for its typing-stop timeout to fire
NextStops ==
    \/ \E c \in Conns : now = StartTime /\ Connect(c, HomeIP(c))
    \/ \E c \in Conns : /\ now = StartTime /\ Len(passed[c].join) < MaxJoins
                        /\ Join(c, DmJoinOf(c), NoRandom)
    \/ \E c \in DOMAIN socketToRoom :
          /\ TypedUpTo(MaxConns) < MaxTypings
          /\ now + TYPING_STOP_MS <= StopsHorizon
          /\ Typing(c)
    \/ \E c \in DOMAIN typingTimers : TypingStop(c)
    \/ \E c \in DOMAIN typingTimers : socketToRoom[c] = "den" /\ SwitchRoom(c, "main")
    \/ \E c \in DOMAIN typingTimers : Disconnect(c)
    \/ StopsTimeout
    \/ StopsTick

\* time goes on, and a timeout that is due fires
SpecStops ==
    Init /\ [][NextStops]_vars /\ WF_vars(StopsTick) /\ WF_vars(StopsTimeout)

\* connection c has just typed in room r, and its typing event with color col went to
\* the others in the room
TypingSent(c, r, col) ==
    /\ last.ev = "typing" /\ last.rate = "passed" /\ last.conn = c
    /\ MapGet(socketToRoom, c, DEFAULT_ROOM_ID) = r
    /\ \E k \in DOMAIN out : out[k].ev = "typing" /\ out[k].data.color = col
\* a typing-stop with color col has just gone to the others in room r, for connection c
TypingStopSent(c, r, col) ==
    /\ last.ev \in {"typing-stop", "typing-timeout"} /\ last.conn = c
    /\ \E k \in DOMAIN out :
          /\ out[k].ev = "typing-stop" /\ out[k].data.color = col
          /\ out[k].to = {d \in Conns \ {c} : r \in adapter[d]}

\* C40: every typing event sent to a room is followed, sooner or later, by a typing-stop
\* of the same color sent to that room
C40_TypingIsFollowedByStop ==
    \A c \in Conns : \A r \in {"den", DEFAULT_ROOM_ID} : \A col \in {"#aaaaaa", "#bbbbbb"} :
        TypingSent(c, r, col) ~> TypingStopSent(c, r, col)

====
